---- MODULE Spec2Model ----
(***************************************************************************)
(* Finternet SDK: the ledger read side (src/src/ledger.rs), the asset      *)
(* operations (src/src/asset.rs), payments (src/src/payment.rs), wallet    *)
(* information (src/src/identity.rs) and the globals of the HTTP server    *)
(* (src/bin/api_server.rs).                                                *)
(*                                                                         *)
(* Spec   : one get_transaction_history call, a loop iteration per step,   *)
(*          the query layer's answers drawn from bounded sets.             *)
(* SpecTx : the reconstruction of one fetched transaction, by the loop     *)
(*          body of get_transaction_history and by                         *)
(*          get_transaction_details, over every transaction of a bounded   *)
(*          domain.                                                        *)
(* SpecHoldings : one call of get_token_accounts, get_owned_assets,        *)
(*          discover_all_tokens, get_asset_info or get_wallet_info, the    *)
(*          query layer's answers drawn from bounded sets, the account     *)
(*          payloads decoded from their base64 / base58 / JSON form.       *)
(* SpecFirstQuery : one call of the scan or of a holdings operation.       *)
(* SpecSubmit : one call of send_payment, tokenize_asset,                  *)
(*          write_ledger_entry, get_token_balance or can_afford_payment,   *)
(*          with the transactions it submits.                              *)
(* SpecServer : main of the HTTP server and the handlers it serves.        *)
(* SpecCalls : two calls in flight at once, their requests interleaved.    *)
(*                                                                         *)
(* Strings are sequences of one-character strings, so that parsing is      *)
(* computed.  u64 is scaled to U64Bits bits, a public key string to        *)
(* KeyStrLen base58 characters, a signature string to KeyStrLen + 1.       *)
(***************************************************************************)
EXTENDS Integers, Sequences, FiniteSets, TLC

VARIABLES
    pc,                   \* "idle" | "scanning" | "done": position in get_transaction_history
    owner,                \* the queried address
    limit_arg,            \* the limit argument of the call
    limit,                \* the resolved limit (limit.unwrap_or(10)), also the limit requested
                          \* of the signature query
    rpc_signatures,       \* the answer to get_signatures_for_address_with_config
    signatures,           \* the signature list the query layer returned
    pos,                  \* number of signatures the loop has consumed
    transaction_records,  \* the Vec being built
    fetch_requests,       \* the signatures whose transaction was requested, in order (history)
    fetched,              \* per consumed signature, what its fetch returned (history)
    ret,                  \* what the call returned: Pending, then Some(Ok(records)) or Some(Err(cause))
    transaction,          \* SpecTx: the fetched transaction under reconstruction
    hist,                 \* SpecTx: outcome of the history loop body on it
    det,                  \* SpecTx: outcome of get_transaction_details on it
    operation,            \* SpecHoldings: the operation called, None before the call
    rpc_balance,          \* SpecHoldings: the answer to get_balance (get_wallet_info)
    rpc_accounts,         \* SpecHoldings: the answer to get_token_accounts_by_owner
    rpc_metadata,         \* SpecHoldings: per mint looked up, the answer to get_account_data
    logged,               \* SpecHoldings: what get_token_accounts logged
    returned,             \* SpecHoldings: what the operation returned, Pending before
    request,              \* SpecSubmit: the operation called with its arguments, None before
    rpc_answers,          \* SpecSubmit: the query layer's answer to each request of the call
                          \* (a failure for a request the call does not reach)
    sent,                 \* SpecSubmit: the transactions given to send_and_confirm_transaction
    result,               \* SpecSubmit: what the operation returned, Pending before
    main_pc,              \* SpecServer: position of main in api_server.rs
    CLIENT,               \* SpecServer: static mut CLIENT
    WALLET,               \* SpecServer: static mut WALLET
    writes,               \* SpecServer: the writes made to the two globals (history)
    handlers,             \* SpecServer: the request handlers in flight
    calls                 \* SpecCalls: the local state of each concurrent call

vars == <<pc, owner, limit_arg, limit, rpc_signatures, signatures, pos, transaction_records,
          fetch_requests, fetched, ret,
          transaction, hist, det,
          operation, rpc_balance, rpc_accounts, rpc_metadata, logged, returned,
          request, rpc_answers, sent, result,
          main_pc, CLIENT, WALLET, writes, handlers,
          calls>>

scanVars == <<pc, owner, limit_arg, limit, rpc_signatures, signatures, pos, transaction_records,
              fetch_requests, fetched, ret>>
txVars == <<transaction, hist, det>>
holdVars == <<operation, rpc_balance, rpc_accounts, rpc_metadata, logged, returned>>
submitVars == <<request, rpc_answers, sent, result>>
serverVars == <<main_pc, CLIENT, WALLET, writes, handlers>>
callVars == <<calls>>

(***************************************************************************)
(* Bounds of the model.                                                    *)
(***************************************************************************)
U64Bits == 7
KeyStrLen == 2
MaxIndex == 1
MaxSigs == 3
MaxLimit == 2

(***************************************************************************)
(* Option and Result values.                                               *)
(***************************************************************************)
Some(v) == [some |-> TRUE, val |-> v]
None == [some |-> FALSE]
Ok(v) == [ok |-> TRUE, val |-> v]
Err(e) == [ok |-> FALSE, error |-> e]

Range(s) == {s[i] : i \in DOMAIN s}

(***************************************************************************)
(* str::parse::<u64>: an optional leading "+", then one or more decimal    *)
(* digits, the value within the type's range; anything else is an error.   *)
(***************************************************************************)
U64Max == 2^U64Bits - 1

DigitChars == <<"0", "1", "2", "3", "4", "5", "6", "7", "8", "9">>

DigitValue(c) == (CHOOSE i \in DOMAIN DigitChars : DigitChars[i] = c) - 1

RECURSIVE ParseDigits(_, _)
ParseDigits(s, acc) ==
    IF s = <<>> THEN Ok(acc)
    ELSE IF Head(s) \notin Range(DigitChars) THEN Err("ParseIntError")
    ELSE LET n == acc * 10 + DigitValue(Head(s))
         IN  IF n > U64Max THEN Err("ParseIntError") ELSE ParseDigits(Tail(s), n)

ParseU64(s) ==
    LET body == IF s # <<>> /\ Head(s) = "+" THEN Tail(s) ELSE s
    IN  IF body = <<>> THEN Err("ParseIntError") ELSE ParseDigits(body, 0)

\* Result::unwrap_or
unwrap_or(r, d) == IF r.ok THEN r.val ELSE d

\* u64 subtraction, wrapping as the release build does
SubU64(a, b) == (a - b + 2^U64Bits) % (2^U64Bits)

(***************************************************************************)
(* Base58 text: Pubkey::from_str and Signature::from_str accept a string   *)
(* of base58 characters that decodes to the type's size.                   *)
(***************************************************************************)
Base58Alphabet ==
    <<"1", "2", "3", "4", "5", "6", "7", "8", "9",
      "A", "B", "C", "D", "E", "F", "G", "H", "J", "K", "L", "M", "N", "P", "Q",
      "R", "S", "T", "U", "V", "W", "X", "Y", "Z",
      "a", "b", "c", "d", "e", "f", "g", "h", "i", "j", "k", "m", "n", "o", "p",
      "q", "r", "s", "t", "u", "v", "w", "x", "y", "z">>

Base58Digit(c) == (CHOOSE i \in DOMAIN Base58Alphabet : Base58Alphabet[i] = c) - 1

RECURSIVE Base58Value(_, _)
Base58Value(s, acc) ==
    IF s = <<>> THEN acc
    ELSE Base58Value(Tail(s), acc * Len(Base58Alphabet) + Base58Digit(Head(s)))

IsBase58(s) == \A i \in DOMAIN s : s[i] \in Range(Base58Alphabet)

ParsePubkey(s) ==
    IF IsBase58(s) /\ Len(s) = KeyStrLen THEN Ok(Base58Value(s, 0))
    ELSE Err("ParsePubkeyError")

SigStrLen == KeyStrLen + 1

ParseSignature(s) ==
    IF IsBase58(s) /\ Len(s) = SigStrLen THEN Ok(Base58Value(s, 0))
    ELSE Err("ParseSignatureError")

(***************************************************************************)
(* The query layer's answers.                                              *)
(*                                                                         *)
(* A token-balance snapshot lists one entry per token account of the       *)
(* transaction, in ascending account index.  An entry is                   *)
(* {account_index, mint, ui_token_amount: {amount}}.                       *)
(***************************************************************************)
KeyStr(c) == [i \in 1..KeyStrLen |-> c]

OwnerKey == ParsePubkey(KeyStr("W")).val
DefaultKey == 0

MintA == KeyStr("A")
MintB == KeyStr("B")
BadMint == KeyStr("0")

\* "x" is no number; "999" is one, beyond the u64 of this model and of the next width
PreAmountStrings == {<<"6", "0">>, <<"1", "0", "0">>, <<"x">>}
PostAmountStrings == {<<"0">>, <<"6", "0">>, <<"1", "0", "0">>, <<"9", "9", "9">>}
PreMintStrings == {MintA, BadMint}
PostMintStrings == {MintB}

AccountIndices == 0..MaxIndex

Ascending(S) ==
    CHOOSE s \in [1..Cardinality(S) -> S] : \A i, j \in DOMAIN s : i < j => s[i] < s[j]

Snapshots(mints, amounts) ==
    UNION { { [k \in 1..Cardinality(S) |->
                 [account_index |-> Ascending(S)[k],
                  mint |-> f[Ascending(S)[k]].mint,
                  ui_token_amount |-> [amount |-> f[Ascending(S)[k]].amount]]]
              : f \in [S -> [mint : mints, amount : amounts]] }
            : S \in SUBSET AccountIndices }

Metas(pres, posts) ==
    {None} \cup
    { Some([pre_token_balances |-> p, post_token_balances |-> q])
        : p \in {None} \cup {Some(x) : x \in pres},
          q \in {None} \cup {Some(x) : x \in posts} }

\* block_time of a transaction
TxBlockTimes == {None, Some(7)}

\* the instructions of a payment: the token transfer, then the memo when one
\* was given (payment.rs, send_payment); the memo's data are the text's bytes
TokenProgramId == "TokenkegQfeZyiNwAJbNbGKPFXCWuBvf9Ss623VQ5DA"
MemoProgramId == "MemoSq4gqABAXKb96qnH8TysNcWxMyWCqXgDLGmfcHr"

TransferIx == [program_id |-> TokenProgramId, data |-> <<3, 40>>]
MemoIx == [program_id |-> MemoProgramId, data |-> <<104, 105>>]

InstructionLists == {<<TransferIx>>, <<TransferIx, MemoIx>>}

\* SpecTx: every transaction over the full alphabets
Transactions ==
    { [meta |-> m, block_time |-> bt, instructions |-> ixs]
        : m \in Metas(Snapshots(PreMintStrings, PreAmountStrings),
                      Snapshots(PostMintStrings, PostAmountStrings)),
          bt \in TxBlockTimes,
          ixs \in InstructionLists }

\* Spec: the transactions a scan is answered with
ScanTransactions ==
    { [meta |-> m, block_time |-> Some(7), instructions |-> <<TransferIx>>]
        : m \in Metas(Snapshots(PreMintStrings, {<<"1", "0", "0">>}),
                      Snapshots(PostMintStrings, {<<"6", "0">>, <<"1", "0", "0">>})) }

\* the i-th signature string of a response: distinct for distinct i
SigStr(i) == [k \in 1..SigStrLen |-> Base58Alphabet[i + 1]]
BadSigStr(i) == [k \in 1..SigStrLen |-> IF k = 1 THEN "0" ELSE Base58Alphabet[i + 1]]

ShortSignatureLists ==
    UNION { { [i \in 1..n |->
                 [signature |-> IF i \in bad THEN BadSigStr(i) ELSE SigStr(i),
                  block_time |-> IF i % 2 = 1 THEN Some(10 * i) ELSE None]]
              : bad \in SUBSET (1..n) }
            : n \in 0..MaxSigs }

(***************************************************************************)
(* get_transaction_history, lines 55-97: the reconstruction of one         *)
(* fetched transaction.                                                    *)
(***************************************************************************)
Min(a, b) == IF a < b THEN a ELSE b

\* lines 60-61: pre.iter().zip(post.iter()) stops with the shorter one
zip_len(pre_token_balances, post_token_balances) ==
    Min(Len(pre_token_balances), Len(post_token_balances))

\* a parse failure taken for the largest amount instead of zero
parse_amount_max(balance) == unwrap_or(ParseU64(balance.ui_token_amount.amount), U64Max)

\* lines 64-65
parse_amount(balance) == unwrap_or(ParseU64(balance.ui_token_amount.amount), 0)

\* the amount strings compared as text, not as numbers
pair_changed_text(pre_balance, post_balance) ==
    /\ pre_balance.account_index = post_balance.account_index
    /\ pre_balance.ui_token_amount.amount # post_balance.ui_token_amount.amount

\* the account indices not compared
pair_changed_any_index(pre_balance, post_balance) ==
    unwrap_or(ParseU64(pre_balance.ui_token_amount.amount), 0)
        # unwrap_or(ParseU64(post_balance.ui_token_amount.amount), 0)

\* lines 63-67: the pair is compared and its amounts differ
pair_changed(pre_balance, post_balance) ==
    /\ pre_balance.account_index = post_balance.account_index
    /\ parse_amount(pre_balance) # parse_amount(post_balance)

\* the difference taken one way only
transfer_amount_wrapping(pre_amount, post_amount) == SubU64(post_amount, pre_amount)

\* lines 69-73
transfer_amount(pre_amount, post_amount) ==
    IF post_amount > pre_amount
    THEN SubU64(post_amount, pre_amount)
    ELSE SubU64(pre_amount, post_amount)

\* lines 340-349
extract_memo_from_transaction(tx) == None

\* no break: the loop runs on and the last changed pair wins
RECURSIVE last_changed_pair(_, _, _)
last_changed_pair(pre_token_balances, post_token_balances, k) ==
    IF k > Min(Len(pre_token_balances), Len(post_token_balances)) THEN 0
    ELSE LET later == last_changed_pair(pre_token_balances, post_token_balances, k + 1)
         IN  IF later # 0 THEN later
             ELSE IF /\ pre_token_balances[k].account_index
                          = post_token_balances[k].account_index
                     /\ unwrap_or(ParseU64(pre_token_balances[k].ui_token_amount.amount), 0)
                          # unwrap_or(ParseU64(post_token_balances[k].ui_token_amount.amount), 0)
                  THEN k
                  ELSE 0

\* lines 60-94: the position of the pair the loop breaks at, 0 when it runs out
RECURSIVE first_changed_pair(_, _, _)
first_changed_pair(pre_token_balances, post_token_balances, k) ==
    IF k > zip_len(pre_token_balances, post_token_balances) THEN 0
    ELSE IF pair_changed(pre_token_balances[k], post_token_balances[k]) THEN k
    ELSE first_changed_pair(pre_token_balances, post_token_balances, k + 1)

\* lines 55-58: meta and both snapshots are present
has_snapshots(tx) ==
    /\ tx.meta.some
    /\ tx.meta.val.pre_token_balances.some
    /\ tx.meta.val.post_token_balances.some

\* the parties left at the default key and the mint read from the post entry
history_record_of_post(own, sig_info, signature, tx, pre_balance, post_balance, token_mint) ==
    [signature |-> signature,
     from |-> DefaultKey,
     to |-> DefaultKey,
     amount |-> transfer_amount(parse_amount(pre_balance), parse_amount(post_balance)),
     token_mint |-> unwrap_or(ParsePubkey(post_balance.mint), token_mint),
     timestamp |-> IF sig_info.block_time.some THEN sig_info.block_time.val ELSE 0,
     memo |-> extract_memo_from_transaction(tx)]

\* lines 80-88
history_record(own, sig_info, signature, tx, pre_balance, post_balance, token_mint) ==
    [signature |-> signature,
     from |-> own,
     to |-> own,
     amount |-> transfer_amount(parse_amount(pre_balance), parse_amount(post_balance)),
     token_mint |-> token_mint,
     timestamp |-> IF sig_info.block_time.some THEN sig_info.block_time.val ELSE 0,
     memo |-> extract_memo_from_transaction(tx)]

\* the record inserted at the front
push_record_front(records, record) == <<record>> \o records

\* line 90
push_record(records, record) == Append(records, record)

\* lines 60-94: Err when the `?` of line 75 returns, else the records after the loop
reconstruct_snapshots(own, sig_info, signature, tx, records) ==
    LET pre == tx.meta.val.pre_token_balances.val
        post == tx.meta.val.post_token_balances.val
        k == first_changed_pair(pre, post, 1)
    IN  IF k = 0 THEN Ok(records)
        ELSE LET token_mint == ParsePubkey(pre[k].mint)
             IN  IF ~token_mint.ok THEN token_mint
                 ELSE Ok(push_record(records,
                           history_record(own, sig_info, signature, tx,
                                          pre[k], post[k], token_mint.val)))

\* a transaction without snapshots taken for an error
reconstruct_meta_required(own, sig_info, signature, tx, records) ==
    IF ~has_snapshots(tx) THEN Err("MissingMetadata")
    ELSE reconstruct_snapshots(own, sig_info, signature, tx, records)

\* lines 55-97: the records after this transaction
reconstruct(own, sig_info, signature, tx, records) ==
    IF ~has_snapshots(tx) THEN Ok(records)
    ELSE reconstruct_snapshots(own, sig_info, signature, tx, records)

\* lines 43-99: one iteration of the loop over the signatures
history_iteration(own, sig_info, response, records) ==
    LET signature == ParseSignature(sig_info.signature)
    IN  IF ~signature.ok THEN signature
        ELSE IF ~response.ok THEN Ok(records)
        ELSE reconstruct(own, sig_info, signature.val, response.val, records)

(***************************************************************************)
(* get_transaction_details, lines 105-158.                                 *)
(***************************************************************************)
\* lines 126-127
details_parse_amount(balance) == unwrap_or(ParseU64(balance.ui_token_amount.amount), 0)

\* the amount strings compared as text
details_pair_changed_text(pre_balance, post_balance) ==
    /\ pre_balance.account_index = post_balance.account_index
    /\ pre_balance.ui_token_amount.amount # post_balance.ui_token_amount.amount

\* lines 125-129
details_pair_changed(pre_balance, post_balance) ==
    /\ pre_balance.account_index = post_balance.account_index
    /\ details_parse_amount(pre_balance) # details_parse_amount(post_balance)

\* a decrease reported as nothing moved
details_transfer_amount_of_increase(pre_amount, post_amount) ==
    IF post_amount > pre_amount THEN SubU64(post_amount, pre_amount) ELSE 0

\* lines 130-134
details_transfer_amount(pre_amount, post_amount) ==
    IF post_amount > pre_amount
    THEN SubU64(post_amount, pre_amount)
    ELSE SubU64(pre_amount, post_amount)

\* lines 122-152
RECURSIVE details_first_changed_pair(_, _, _)
details_first_changed_pair(pre_token_balances, post_token_balances, k) ==
    IF k > Min(Len(pre_token_balances), Len(post_token_balances)) THEN 0
    ELSE IF details_pair_changed(pre_token_balances[k], post_token_balances[k]) THEN k
    ELSE details_first_changed_pair(pre_token_balances, post_token_balances, k + 1)

\* lines 139-147
details_record(signature, tx, pre_balance, post_balance, token_mint) ==
    [signature |-> signature,
     from |-> DefaultKey,
     to |-> DefaultKey,
     amount |-> details_transfer_amount(details_parse_amount(pre_balance),
                                        details_parse_amount(post_balance)),
     token_mint |-> token_mint,
     timestamp |-> IF tx.block_time.some THEN tx.block_time.val ELSE 0,
     memo |-> extract_memo_from_transaction(tx)]

\* lines 106-158: Result<Option<TransactionRecord>>
get_transaction_details(signature, response) ==
    IF ~response.ok THEN response
    ELSE LET tx == response.val
         IN  IF ~(/\ tx.meta.some
                  /\ tx.meta.val.pre_token_balances.some
                  /\ tx.meta.val.post_token_balances.some)
             THEN Ok(None)
             ELSE LET pre == tx.meta.val.pre_token_balances.val
                      post == tx.meta.val.post_token_balances.val
                      k == details_first_changed_pair(pre, post, 1)
                  IN  IF k = 0 THEN Ok(None)
                      ELSE LET token_mint == ParsePubkey(pre[k].mint)
                           IN  IF ~token_mint.ok THEN token_mint
                               ELSE Ok(Some(details_record(signature, tx, pre[k], post[k],
                                                           token_mint.val)))

(***************************************************************************)
(* Spec: one call of get_transaction_history.                              *)
(***************************************************************************)
DefaultLimit == 10

\* the default taken for one more
limit_or_one_more(arg) == IF arg.some THEN arg.val ELSE DefaultLimit + 1

\* line 26: limit.unwrap_or(10)
limit_or_default(arg) == IF arg.some THEN arg.val ELSE DefaultLimit

LimitArgs == {None, Some(DefaultLimit)} \cup {Some(n) : n \in 0..MaxLimit}

\* a response with one signature more than the default limit, its
\* signatures other than those of the short responses
LongSignatureList ==
    [i \in 1..(DefaultLimit + 1) |-> [signature |-> SigStr(MaxSigs + i), block_time |-> None]]

SignatureLists == ShortSignatureLists \cup {LongSignatureList}

\* a transaction that moved 40 of MintA
ChangedTransaction ==
    [meta |-> Some([pre_token_balances |->
                        Some(<<[account_index |-> 0, mint |-> MintA,
                                ui_token_amount |-> [amount |-> <<"1", "0", "0">>]]>>),
                    post_token_balances |->
                        Some(<<[account_index |-> 0, mint |-> MintB,
                                ui_token_amount |-> [amount |-> <<"6", "0">>]]>>)]),
     block_time |-> Some(7),
     instructions |-> <<TransferIx>>]

\* what the query layer may answer to the fetch of a signature's transaction;
\* for the signatures of the long response, a failure or the one transaction
FetchAnswers(sig_info) ==
    IF sig_info \in Range(LongSignatureList)
    THEN {Err("ClientError"), Ok(ChangedTransaction)}
    ELSE {Err("ClientError")} \cup {Ok(tx) : tx \in ScanTransactions}

Pending == None

\* every signature of the response scanned
take_len_all(sigs, lim) == Len(sigs)

\* line 43: signatures.iter().take(limit)
take_len(sigs, lim) == Min(Len(sigs), lim)

\* the pairs of a transaction with both snapshots that the loop would report
ChangedPairs(tx) ==
    LET pre == tx.meta.val.pre_token_balances.val
        post == tx.meta.val.post_token_balances.val
    IN  {k \in 1..Min(Len(pre), Len(post)) :
           /\ pre[k].account_index = post[k].account_index
           /\ unwrap_or(ParseU64(pre[k].ui_token_amount.amount), 0)
                # unwrap_or(ParseU64(post[k].ui_token_amount.amount), 0)}

\* what the fetch of lines 47-54 returned, as the history variable keeps it
FetchClass(response) ==
    IF ~response.ok THEN "failed"
    ELSE IF ~has_snapshots(response.val) THEN "no_snapshots"
    ELSE LET pre == response.val.meta.val.pre_token_balances.val
             changed == ChangedPairs(response.val)
         IN  IF changed = {} THEN "unchanged"
             ELSE IF \E k \in changed : ~ParsePubkey(pre[k].mint).ok THEN "changed_bad_mint"
             ELSE IF Cardinality(changed) = 1 THEN "changed"
             ELSE "changed_many"

ScanInit ==
    /\ pc = "idle"
    /\ owner = OwnerKey
    /\ limit_arg = None
    /\ limit = 0
    /\ rpc_signatures = Err("ClientError")
    /\ signatures = <<>>
    /\ pos = 0
    /\ transaction_records = <<>>
    /\ fetch_requests = <<>>
    /\ fetched = <<>>
    /\ ret = Pending

TxIdle ==
    /\ transaction = Err("ClientError")
    /\ hist = Pending
    /\ det = Pending

HoldIdle ==
    /\ operation = None
    /\ rpc_balance = Err("ClientError")
    /\ rpc_accounts = Err("ClientError")
    /\ rpc_metadata = <<>>
    /\ logged = <<>>
    /\ returned = Pending

SubmitIdle ==
    /\ request = None
    /\ rpc_answers = <<>>
    /\ sent = <<>>
    /\ result = Pending

\* api_server.rs, lines 75-76: both globals start as None
ServerStart ==
    /\ main_pc = "initialize_client"
    /\ CLIENT = None
    /\ WALLET = None
    /\ writes = <<>>
    /\ handlers = <<>>

NoCalls == calls = <<>>

OthersIdle == SubmitIdle /\ ServerStart /\ NoCalls

Init == ScanInit /\ TxIdle /\ HoldIdle /\ OthersIdle

\* lines 21-40: the call, the limit's default and the signature query
call_get_transaction_history ==
    /\ pc = "idle"
    /\ \E arg \in LimitArgs, answer \in {Err("ClientError")} \cup {Ok(l) : l \in SignatureLists} :
          /\ limit_arg' = arg
          /\ limit' = limit_or_default(arg)
          /\ rpc_signatures' = answer
          /\ IF answer.ok
             THEN /\ signatures' = answer.val
                  /\ pc' = "scanning"
                  /\ ret' = ret
             ELSE /\ signatures' = signatures
                  /\ pc' = "done"
                  /\ ret' = Some(answer)
    /\ UNCHANGED <<owner, pos, transaction_records, fetch_requests, fetched,
                   txVars, holdVars, submitVars, serverVars, callVars>>

\* lines 43-99: one iteration, the transaction fetch answered by the query layer
process_signature ==
    /\ pc = "scanning"
    /\ pos < take_len(signatures, limit)
    /\ \E response \in FetchAnswers(signatures[pos + 1]) :
          LET sig_info == signatures[pos + 1]
              out == history_iteration(owner, sig_info, response, transaction_records)
          IN  /\ fetch_requests' = (IF ParseSignature(sig_info.signature).ok
                                    THEN Append(fetch_requests,
                                                ParseSignature(sig_info.signature).val)
                                    ELSE fetch_requests)
              /\ fetched' = (IF ParseSignature(sig_info.signature).ok
                             THEN Append(fetched, FetchClass(response))
                             ELSE Append(fetched, "not_fetched"))
              /\ IF out.ok
                 THEN /\ transaction_records' = out.val
                      /\ pos' = pos + 1
                      /\ UNCHANGED <<pc, ret>>
                 ELSE /\ pc' = "done"
                      /\ ret' = Some(out)
                      /\ UNCHANGED <<transaction_records, pos>>
    /\ UNCHANGED <<owner, limit_arg, limit, rpc_signatures, signatures,
                   txVars, holdVars, submitVars, serverVars, callVars>>

\* lines 101-102
return_records ==
    /\ pc = "scanning"
    /\ pos >= take_len(signatures, limit)
    /\ pc' = "done"
    /\ ret' = Some(Ok(transaction_records))
    /\ UNCHANGED <<owner, limit_arg, limit, rpc_signatures, signatures, pos, transaction_records,
                   fetch_requests, fetched,
                   txVars, holdVars, submitVars, serverVars, callVars>>

Next ==
    \/ call_get_transaction_history
    \/ process_signature
    \/ return_records

Spec == Init /\ [][Next]_vars

(***************************************************************************)
(* SpecTx: one fetched transaction, reconstructed by both operations.      *)
(***************************************************************************)
TxInit ==
    /\ ScanInit
    /\ HoldIdle
    /\ OthersIdle
    /\ transaction \in {Ok(tx) : tx \in Transactions}
    /\ hist = Pending
    /\ det = Pending

\* the signature entry the transaction is listed under
TxSigInfo == [signature |-> SigStr(1), block_time |-> Some(5)]

\* lines 43-99 on it: the loop body, the record list empty before it
history_of_transaction ==
    /\ hist = Pending
    /\ hist' = Some(history_iteration(owner, TxSigInfo, transaction, <<>>))
    /\ UNCHANGED <<scanVars, transaction, det, holdVars, submitVars, serverVars, callVars>>

\* get_transaction_details of its signature
details_of_transaction ==
    /\ hist # Pending
    /\ det = Pending
    /\ det' = Some(get_transaction_details(ParseSignature(TxSigInfo.signature).val,
                                           transaction))
    /\ UNCHANGED <<scanVars, transaction, hist, holdVars, submitVars, serverVars, callVars>>

TxNext ==
    \/ history_of_transaction
    \/ details_of_transaction

SpecTx == TxInit /\ [][TxNext]_vars

(***************************************************************************)
(* Bytes and their text encodings (get_token_accounts, lines 183-208).     *)
(* A byte string is a sequence of 0..255.                                  *)
(***************************************************************************)
Base64Alphabet ==
    <<"A", "B", "C", "D", "E", "F", "G", "H", "I", "J", "K", "L", "M", "N", "O", "P",
      "Q", "R", "S", "T", "U", "V", "W", "X", "Y", "Z",
      "a", "b", "c", "d", "e", "f", "g", "h", "i", "j", "k", "l", "m", "n", "o", "p",
      "q", "r", "s", "t", "u", "v", "w", "x", "y", "z",
      "0", "1", "2", "3", "4", "5", "6", "7", "8", "9", "+", "/">>

Base64Digit(c) == (CHOOSE i \in DOMAIN Base64Alphabet : Base64Alphabet[i] = c) - 1

\* four 6-bit digits give three bytes
RECURSIVE Base64Groups(_)
Base64Groups(digits) ==
    IF digits = <<>> THEN <<>>
    ELSE LET v == digits[1] * 262144 + digits[2] * 4096 + digits[3] * 64 + digits[4]
         IN  <<v \div 65536, (v \div 256) % 256, v % 256>>
                 \o Base64Groups(SubSeq(digits, 5, Len(digits)))

\* general_purpose::STANDARD.decode: padded, canonical; anything else is an error
Base64Decode(s) ==
    LET n == Len(s)
        pad == IF n >= 2 /\ s[n] = "=" /\ s[n - 1] = "=" THEN 2
               ELSE IF n >= 1 /\ s[n] = "=" THEN 1
               ELSE 0
    IN  IF \/ n % 4 # 0
           \/ \E i \in 1..(n - pad) : s[i] \notin Range(Base64Alphabet)
        THEN Err("DecodeError")
        ELSE LET digits == [i \in 1..n |-> IF i <= n - pad THEN Base64Digit(s[i]) ELSE 0]
                 bytes == Base64Groups(digits)
             IN  IF \E i \in (Len(bytes) - pad + 1)..Len(bytes) : bytes[i] # 0
                 THEN Err("DecodeError")
                 ELSE Ok(SubSeq(bytes, 1, Len(bytes) - pad))

\* the digits, least significant first, of acc * from + carry in base `to`
RECURSIVE MulAdd(_, _, _, _)
MulAdd(acc, from, to, carry) ==
    IF acc = <<>>
    THEN IF carry = 0 THEN <<>> ELSE <<carry % to>> \o MulAdd(<<>>, from, to, carry \div to)
    ELSE LET v == Head(acc) * from + carry
         IN  <<v % to>> \o MulAdd(Tail(acc), from, to, v \div to)

\* a number given by its digits in base `from`, most significant first, as
\* its digits in base `to`, least significant first
RECURSIVE Rebase(_, _, _, _)
Rebase(digits, from, to, acc) ==
    IF digits = <<>> THEN acc
    ELSE Rebase(Tail(digits), from, to, MulAdd(acc, from, to, Head(digits)))

Reverse(s) == [i \in 1..Len(s) |-> s[Len(s) + 1 - i]]

RECURSIVE LeadingCount(_, _)
LeadingCount(s, c) ==
    IF s # <<>> /\ Head(s) = c THEN 1 + LeadingCount(Tail(s), c) ELSE 0

\* bs58::decode(data).into_vec(): a zero byte per leading "1", then the number
Base58Decode(s) ==
    IF ~IsBase58(s) THEN Err("DecodeError")
    ELSE LET zeros == LeadingCount(s, "1")
             digits == [i \in 1..(Len(s) - zeros) |-> Base58Digit(s[i + zeros])]
         IN  Ok([i \in 1..zeros |-> 0] \o Reverse(Rebase(digits, 58, 256, <<>>)))

\* the texts the ledger encodes a byte string as
Base64Encode(bytes) ==
    LET fill == (3 - (Len(bytes) % 3)) % 3
        padded == bytes \o [i \in 1..fill |-> 0]
        digit(k) == LET g == (k - 1) \div 4
                        v == padded[3 * g + 1] * 65536 + padded[3 * g + 2] * 256
                                 + padded[3 * g + 3]
                    IN  CASE (k - 1) % 4 = 0 -> v \div 262144
                          [] (k - 1) % 4 = 1 -> (v \div 4096) % 64
                          [] (k - 1) % 4 = 2 -> (v \div 64) % 64
                          [] OTHER -> v % 64
        n == 4 * (Len(padded) \div 3)
    IN  [k \in 1..n |-> IF k > n - fill THEN "=" ELSE Base64Alphabet[digit(k) + 1]]

Base58Encode(bytes) ==
    LET zeros == LeadingCount(bytes, 0)
        digits == Reverse(Rebase(SubSeq(bytes, zeros + 1, Len(bytes)), 256, 58, <<>>))
    IN  [i \in 1..zeros |-> "1"] \o [i \in DOMAIN digits |-> Base58Alphabet[digits[i] + 1]]

(***************************************************************************)
(* spl_token::state::Account::unpack (line 216), the layout scaled to      *)
(* mint | amount (little-endian) | state.                                  *)
(***************************************************************************)
AmountLen == (U64Bits + 7) \div 8
AccountLen == KeyStrLen + AmountLen + 1

RECURSIVE FromBigEndian(_, _)
FromBigEndian(bytes, acc) ==
    IF bytes = <<>> THEN acc ELSE FromBigEndian(Tail(bytes), acc * 256 + Head(bytes))

FromLittleEndian(bytes) == FromBigEndian(Reverse(bytes), 0)

RECURSIVE ToLittleEndian(_, _)
ToLittleEndian(n, len) ==
    IF len = 0 THEN <<>> ELSE <<n % 256>> \o ToLittleEndian(n \div 256, len - 1)

\* the length is checked, then the state byte: 0 is an account not initialized
unpack(bytes) ==
    IF Len(bytes) # AccountLen THEN Err("InvalidAccountData")
    ELSE IF bytes[AccountLen] \notin {0, 1, 2} THEN Err("InvalidAccountData")
    ELSE IF bytes[AccountLen] = 0 THEN Err("UninitializedAccount")
    ELSE Ok([mint |-> FromBigEndian(SubSeq(bytes, 1, KeyStrLen), 0),
             amount |-> FromLittleEndian(SubSeq(bytes, KeyStrLen + 1,
                                                KeyStrLen + AmountLen))])

\* the bytes the token program stores for an account
pack(mint, amount, state) ==
    Reverse(ToLittleEndian(mint, KeyStrLen)) \o ToLittleEndian(amount, AmountLen) \o <<state>>

(***************************************************************************)
(* serde_json::Value, as far as lines 230-237 read it.                     *)
(***************************************************************************)
JsonString(s) == [string |-> s]
JsonNumber(n) == [number |-> n]
JsonObject(fields) == [object |-> fields]

\* Value::get(key): the member of an object, None for anything else
JsonGet(v, key) ==
    IF "object" \in DOMAIN v /\ key \in DOMAIN v.object THEN Some(v.object[key]) ELSE None

\* Option<&Value>.and_then(|v| v.as_str())
JsonAsStr(opt) ==
    IF opt.some /\ "string" \in DOMAIN opt.val THEN Some(opt.val.string) ELSE None

(***************************************************************************)
(* get_token_accounts, lines 173-265: one account of the response.         *)
(***************************************************************************)
\* the amounts of a mint added up
insert_summing(map, key, value) ==
    [k \in DOMAIN map \cup {key} |->
        IF k # key THEN map[k]
        ELSE IF key \in DOMAIN map THEN (map[key] + value) % (2^U64Bits)
        ELSE value]

\* HashMap::insert: the value of an existing key is replaced
insert(map, key, value) ==
    [k \in DOMAIN map \cup {key} |-> IF k = key THEN value ELSE map[k]]

EmptyMap == [k \in {} |-> 0]

\* the entry written without the account's index
LogEntry_without_index(level, i, text) == [level |-> level, account |-> 0, text |-> text]

\* log::warn!, log::info!, log::debug! with the index i of the account
LogEntry(level, i, text) == [level |-> level, account |-> i, text |-> text]

\* lines 182-213
decode_binary(data, encoding) ==
    CASE encoding = "Base64" -> Base64Decode(data)
      [] encoding = "Base58" -> Base58Decode(data)
      [] OTHER -> Err("UnsupportedEncoding")

\* an amount that is no number taken for zero
parse_json_amount_or_zero(amount_str) == Ok(unwrap_or(ParseU64(amount_str), 0))

\* line 238: amount_str.parse::<u64>()
parse_json_amount(amount_str) == ParseU64(amount_str)

\* lines 226-260: a structured account; the map and the log after it
process_json(i, parsed, balances, log) ==
    LET info == JsonGet(parsed, "info")
    IN  IF ~info.some
        THEN [balances |-> balances,
              log |-> Append(log, LogEntry("warn", i, "No info field in parsed account"))]
        ELSE
    LET mint_str == JsonAsStr(JsonGet(info.val, "mint"))
        token_amount == JsonGet(info.val, "tokenAmount")
    IN  IF ~(mint_str.some /\ token_amount.some)
        THEN [balances |-> balances,
              log |-> Append(log, LogEntry("warn", i, "Missing mint or tokenAmount in account info"))]
        ELSE
    LET amount_str == JsonAsStr(JsonGet(token_amount.val, "amount"))
    IN  IF ~amount_str.some
        THEN [balances |-> balances,
              log |-> Append(log, LogEntry("warn", i, "No amount found in tokenAmount for account"))]
        ELSE
    LET mint == ParsePubkey(mint_str.val)
        amount == parse_json_amount(amount_str.val)
    IN  IF mint.ok /\ amount.ok
        THEN [balances |-> insert(balances, mint.val, amount.val),
              log |-> Append(log, LogEntry("info", i, "Successfully parsed JSON token account"))]
        ELSE IF ~mint.ok
        THEN [balances |-> balances,
              log |-> Append(log, LogEntry("warn", i, "Failed to parse mint for account"))]
        ELSE [balances |-> balances,
              log |-> Append(log, LogEntry("warn", i, "Failed to parse amount for account"))]

\* lines 179-225: a binary account
process_binary(i, data, encoding, balances, log) ==
    LET decoded_data == decode_binary(data, encoding)
    IN  IF ~decoded_data.ok
        THEN [balances |-> balances,
              log |-> Append(log, LogEntry("warn", i,
                         CASE encoding = "Base64" -> "Failed to decode base64 for account"
                           [] encoding = "Base58" -> "Failed to decode base58 for account"
                           [] OTHER -> "Skipping account with unsupported encoding"))]
        ELSE LET token_account == unpack(decoded_data.val)
             IN  IF token_account.ok
                 THEN [balances |-> insert(balances, token_account.val.mint,
                                           token_account.val.amount),
                       log |-> Append(log, LogEntry("info", i,
                                  "Successfully unpacked token account"))]
                 ELSE [balances |-> balances,
                       log |-> Append(log, LogEntry("warn", i,
                                  "Failed to unpack token account"))]

\* lines 178-264: the match on the account's data; of the debug lines only
\* the one of line 262 is kept
process_account(i, account, balances, log) ==
    LET data == account.account.data
    IN  CASE data.format = "Binary" ->
               process_binary(i, data.data, data.encoding, balances, log)
          [] data.format = "Json" ->
               process_json(i, data.parsed.parsed, balances, log)
          [] OTHER ->
               [balances |-> balances,
                log |-> Append(log, LogEntry("debug", i, "Account data format not supported"))]

\* the loop left at the first account that does not decode
RECURSIVE decode_accounts_until_failure(_, _, _, _)
decode_accounts_until_failure(token_accounts, i, balances, log) ==
    IF i >= Len(token_accounts) THEN [balances |-> balances, log |-> log]
    ELSE LET after == process_account(i, token_accounts[i + 1], balances, log)
         IN  IF after.log[Len(after.log)].level = "info"
             THEN decode_accounts_until_failure(token_accounts, i + 1,
                                                after.balances, after.log)
             ELSE after

\* lines 173-265: the loop from the account of index i on (enumerate counts from 0)
RECURSIVE decode_accounts(_, _, _, _)
decode_accounts(token_accounts, i, balances, log) ==
    IF i >= Len(token_accounts) THEN [balances |-> balances, log |-> log]
    ELSE LET after == process_account(i, token_accounts[i + 1], balances, log)
         IN  decode_accounts(token_accounts, i + 1, after.balances, after.log)

\* a failed query answered by an empty map
get_token_accounts_or_empty(answer) ==
    IF ~answer.ok THEN [ret |-> Ok(EmptyMap), log |-> <<>>]
    ELSE LET decoded == decode_accounts(answer.val, 0, EmptyMap, <<>>)
         IN  [ret |-> Ok(decoded.balances), log |-> decoded.log]

\* lines 161-269: Result<HashMap<Pubkey, u64>>, and what the call logged
get_token_accounts(answer) ==
    IF ~answer.ok THEN [ret |-> answer, log |-> <<>>]
    ELSE LET decoded == decode_accounts(answer.val, 0, EmptyMap, <<>>)
         IN  [ret |-> Ok(decoded.balances), log |-> decoded.log]

(***************************************************************************)
(* get_asset_info (asset.rs, lines 157-185).  The metadata account, scaled *)
(* to key | name | symbol | creators, each string and the creator list     *)
(* prefixed by its length, the option by its tag; text is kept as its      *)
(* bytes, 0 being NUL.                                                     *)
(***************************************************************************)
\* a length-prefixed run of `width`-byte items from position `at` on
ReadRun(bytes, at, width) ==
    IF at > Len(bytes) THEN Err("ParseMetadataError")
    ELSE LET n == bytes[at]
         IN  IF at + n * width > Len(bytes) THEN Err("ParseMetadataError")
             ELSE Ok([items |-> [k \in 1..n |->
                                    SubSeq(bytes, at + 1 + (k - 1) * width,
                                           at + k * width)],
                      next |-> at + 1 + n * width])

Flatten(run) == [k \in DOMAIN run |-> run[k][1]]

\* Metadata::from_bytes (line 165)
Metadata_from_bytes(bytes) ==
    IF bytes = <<>> \/ bytes[1] >= 15 THEN Err("ParseMetadataError")
    ELSE
    LET name == ReadRun(bytes, 2, 1)
    IN  IF ~name.ok THEN name ELSE
    LET symbol == ReadRun(bytes, name.val.next, 1)
    IN  IF ~symbol.ok THEN symbol ELSE
    LET tag == symbol.val.next
    IN  IF tag > Len(bytes) \/ bytes[tag] \notin {0, 1} THEN Err("ParseMetadataError")
        ELSE IF bytes[tag] = 0
        THEN Ok([name |-> Flatten(name.val.items), symbol |-> Flatten(symbol.val.items),
                 creators |-> None])
        ELSE
    LET creators == ReadRun(bytes, tag + 1, KeyStrLen)
    IN  IF ~creators.ok THEN creators
        ELSE Ok([name |-> Flatten(name.val.items), symbol |-> Flatten(symbol.val.items),
                 creators |-> Some([k \in DOMAIN creators.val.items |->
                                       [address |-> FromBigEndian(creators.val.items[k], 0)]])])

\* str::trim_matches('\0'): the NULs at both ends are removed
trim_matches(str, c) ==
    LET keep == {i \in DOMAIN str : str[i] # c}
    IN  IF keep = {} THEN <<>>
        ELSE SubSeq(str, CHOOSE i \in keep : \A j \in keep : i <= j,
                         CHOOSE i \in keep : \A j \in keep : i >= j)

\* lines 168-171
first_creator(metadata) ==
    IF metadata.creators.some /\ metadata.creators.val # <<>>
    THEN metadata.creators.val[1].address
    ELSE DefaultKey

\* lines 157-185: Result<AssetMetadata>
get_asset_info(token_mint, answer) ==
    IF ~answer.ok THEN answer
    ELSE LET metadata == Metadata_from_bytes(answer.val)
         IN  IF ~metadata.ok THEN metadata
             ELSE Ok([name |-> trim_matches(metadata.val.name, 0),
                      description |-> "Asset tokenized on Finternet",
                      value |-> 0,
                      issuer |-> first_creator(metadata.val),
                      asset_type |-> "tokenized_asset",
                      created_at |-> 0,
                      token_mint |-> Some(token_mint)])

(***************************************************************************)
(* get_owned_assets (ledger.rs, lines 272-287) and discover_all_tokens     *)
(* (lines 380-412).  A HashMap is iterated in an order of its own: `order` *)
(* lists the keys as the iteration meets them.                             *)
(***************************************************************************)
IterationOrders(map) ==
    {order \in [1..Cardinality(DOMAIN map) -> DOMAIN map] :
        \A i, j \in DOMAIN order : i # j => order[i] # order[j]}

\* an entry of balance zero is an owned asset too
has_balance_or_zero(balance) == balance >= 0

\* lines 279 and 391
has_balance(balance) == balance > 0

\* lines 277-282
RECURSIVE owned_assets(_, _, _)
owned_assets(token_accounts, order, assets) ==
    IF order = <<>> THEN assets
    ELSE LET mint == Head(order)
             balance == token_accounts[mint]
         IN  owned_assets(token_accounts, Tail(order),
                          IF has_balance(balance)
                          THEN Append(assets, <<mint, balance>>)
                          ELSE assets)

\* lines 272-287: Result<Vec<(Pubkey, u64)>>
get_owned_assets(answer, order) ==
    LET token_accounts == get_token_accounts(answer).ret
    IN  IF ~token_accounts.ok THEN token_accounts
        ELSE Ok(owned_assets(token_accounts.val, order, <<>>))

\* lines 395-404: Option<String>
metadata_name(mint, answer) ==
    LET asset_info == get_asset_info(mint, answer)
    IN  IF asset_info.ok THEN Some(asset_info.val.name) ELSE None

\* lines 389-407
RECURSIVE discovered(_, _, _, _)
discovered(token_accounts, order, answers, discovered_tokens) ==
    IF order = <<>> THEN discovered_tokens
    ELSE LET mint == Head(order)
             balance == token_accounts[mint]
         IN  discovered(token_accounts, Tail(order), answers,
                        IF has_balance(balance)
                        THEN Append(discovered_tokens,
                                    <<mint, balance, metadata_name(mint, answers[mint])>>)
                        ELSE discovered_tokens)

\* the lookup's error returned with `?`
discover_all_tokens_strict(answer, order, answers) ==
    LET token_accounts == get_token_accounts(answer).ret
    IN  IF ~token_accounts.ok THEN token_accounts
        ELSE IF \E mint \in DOMAIN token_accounts.val :
                    /\ token_accounts.val[mint] > 0
                    /\ ~get_asset_info(mint, answers[mint]).ok
        THEN Err("MetadataError")
        ELSE Ok(discovered(token_accounts.val, order, answers, <<>>))

\* lines 380-412: Result<Vec<(Pubkey, u64, Option<String>)>>
discover_all_tokens(answer, order, answers) ==
    LET token_accounts == get_token_accounts(answer).ret
    IN  IF ~token_accounts.ok THEN token_accounts
        ELSE Ok(discovered(token_accounts.val, order, answers, <<>>))

(***************************************************************************)
(* The query layer's answers to the holdings operations.                   *)
(***************************************************************************)
MaxAccounts == 2

MintAKey == ParsePubkey(MintA).val
MintBKey == ParsePubkey(MintB).val

BinaryAccount(data, encoding) ==
    [account |-> [data |-> [format |-> "Binary", data |-> data, encoding |-> encoding]]]

JsonAccount(parsed) ==
    [account |-> [data |-> [format |-> "Json", parsed |-> [parsed |-> parsed]]]]

LegacyAccount(data) ==
    [account |-> [data |-> [format |-> "LegacyBinary", data |-> data]]]

JsonInfo(info) == JsonObject([info |-> JsonObject(info)])

BinaryAccounts ==
    { BinaryAccount(Base64Encode(pack(MintAKey, 40, 1)), "Base64"),
      BinaryAccount(Base58Encode(pack(MintAKey, 60, 1)), "Base58"),
      BinaryAccount(Base64Encode(pack(MintBKey, 0, 2)), "Base64"),
      \* text that is not of the encoding
      BinaryAccount(<<"!", "!", "!", "!">>, "Base64"),
      BinaryAccount(<<"0", "O">>, "Base58"),
      \* a payload one byte short, and one of an account not initialized
      BinaryAccount(Base64Encode(SubSeq(pack(MintAKey, 40, 1), 1, AccountLen - 1)), "Base64"),
      BinaryAccount(Base58Encode(pack(MintBKey, 40, 0)), "Base58"),
      \* an encoding the match does not name
      BinaryAccount(Base64Encode(pack(MintAKey, 40, 1)), "Base64Zstd") }

JsonAccounts ==
    { JsonAccount(JsonInfo([mint |-> JsonString(MintA),
                            tokenAmount |-> JsonObject([amount |-> JsonString(<<"1", "0", "0">>)])])),
      JsonAccount(JsonInfo([mint |-> JsonString(MintB),
                            tokenAmount |-> JsonObject([amount |-> JsonString(<<"4", "0">>)])])),
      \* no "info"; no "mint"; a mint that is no key
      JsonAccount(JsonObject([type |-> JsonString(<<"a">>)])),
      JsonAccount(JsonInfo([tokenAmount |-> JsonObject([amount |-> JsonString(<<"4", "0">>)])])),
      JsonAccount(JsonInfo([mint |-> JsonString(BadMint),
                            tokenAmount |-> JsonObject([amount |-> JsonString(<<"4", "0">>)])])),
      \* no "tokenAmount"; an "amount" that is a number; one that is no number
      JsonAccount(JsonInfo([mint |-> JsonString(MintA)])),
      JsonAccount(JsonInfo([mint |-> JsonString(MintA),
                            tokenAmount |-> JsonObject([amount |-> JsonNumber(40)])])),
      JsonAccount(JsonInfo([mint |-> JsonString(MintA),
                            tokenAmount |-> JsonObject([amount |-> JsonString(<<"x">>)])])) }

TokenAccounts == BinaryAccounts \cup JsonAccounts \cup {LegacyAccount(<<"8", "w", "r">>)}

TokenAccountAnswers ==
    {Err("ClientError")} \cup
    UNION { {Ok(l) : l \in [1..n -> TokenAccounts]} : n \in 0..MaxAccounts }

\* the bytes of a metadata account; the account's space is zero-filled
RECURSIVE CreatorBytes(_)
CreatorBytes(creators) ==
    IF creators = <<>> THEN <<>>
    ELSE Reverse(ToLittleEndian(Head(creators), KeyStrLen)) \o CreatorBytes(Tail(creators))

MetadataBytes(key, name, symbol, creators) ==
    <<key, Len(name)>> \o name \o <<Len(symbol)>> \o symbol
        \o (IF creators.some
            THEN <<1, Len(creators.val)>> \o CreatorBytes(creators.val)
            ELSE <<0>>)
        \o <<0, 0>>

\* "ab" padded; NULs at the front and inside; nothing but padding; empty
StoredNames == {<<97, 98, 0, 0>>, <<0, 97, 98, 0>>, <<97, 0, 98, 0>>, <<0, 0>>, <<>>}
StoredSymbols == {<<70>>, <<>>}
StoredCreators ==
    {None, Some(<<>>), Some(<<OwnerKey>>), Some(<<MintAKey, OwnerKey>>)}

\* key 4 is MetadataV1
MetadataAccounts ==
    { MetadataBytes(4, name, symbol, creators)
        : name \in StoredNames, symbol \in StoredSymbols, creators \in StoredCreators }

\* no bytes; a name cut short; an option tag that is none; a key that is none
BrokenMetadataAccounts ==
    { <<>>, <<4, 3, 97>>, <<4, 1, 97, 0, 7>>, <<99, 0, 0, 0>> }

MetadataAnswers ==
    {Err("AccountNotFound"), Err("ClientError")}
        \cup {Ok(bytes) : bytes \in MetadataAccounts \cup BrokenMetadataAccounts}

\* the answers a lookup of discover_all_tokens gets
LookupAnswers ==
    { Err("AccountNotFound"),
      Ok(<<4, 3, 97>>),
      Ok(MetadataBytes(4, <<97, 98, 0, 0>>, <<70>>, Some(<<OwnerKey>>))) }

\* lamports the balance query answers
SolBalances == {0, U64Max}

\* identity.rs, lines 163-175: Result<WalletInfo>
get_wallet_info(pubkey, sol, answer) ==
    IF ~sol.ok THEN sol
    ELSE LET token_accounts == get_token_accounts(answer).ret
         IN  IF ~token_accounts.ok THEN token_accounts
             ELSE Ok([pubkey |-> pubkey,
                      sol_balance |-> sol.val,
                      token_balances |-> token_accounts.val])

(***************************************************************************)
(* SpecHoldings: one call of a holdings or metadata operation.             *)
(***************************************************************************)
Called(name, arg) == Some([name |-> name, arg |-> arg])

\* lines 161-269
call_get_token_accounts ==
    /\ operation = None
    /\ \E answer \in TokenAccountAnswers :
          /\ operation' = Called("get_token_accounts", OwnerKey)
          /\ rpc_accounts' = answer
          /\ logged' = get_token_accounts(answer).log
          /\ returned' = Some(get_token_accounts(answer).ret)
    /\ UNCHANGED <<rpc_balance, rpc_metadata, scanVars, txVars, submitVars, serverVars, callVars>>

\* lines 272-287
call_get_owned_assets ==
    /\ operation = None
    /\ \E answer \in TokenAccountAnswers :
          LET token_accounts == get_token_accounts(answer)
          IN  /\ operation' = Called("get_owned_assets", OwnerKey)
              /\ rpc_accounts' = answer
              /\ logged' = token_accounts.log
              /\ \E order \in IF token_accounts.ret.ok
                              THEN IterationOrders(token_accounts.ret.val)
                              ELSE {<<>>} :
                    returned' = Some(get_owned_assets(answer, order))
    /\ UNCHANGED <<rpc_balance, rpc_metadata, scanVars, txVars, submitVars, serverVars, callVars>>

\* lines 380-412, each metadata lookup answered by the query layer
call_discover_all_tokens ==
    /\ operation = None
    /\ \E answer \in TokenAccountAnswers :
          LET token_accounts == get_token_accounts(answer)
              balances == IF token_accounts.ret.ok THEN token_accounts.ret.val ELSE EmptyMap
          IN  /\ operation' = Called("discover_all_tokens", OwnerKey)
              /\ rpc_accounts' = answer
              /\ logged' = token_accounts.log
              /\ \E order \in IterationOrders(balances),
                    answers \in [{mint \in DOMAIN balances : balances[mint] > 0}
                                    -> LookupAnswers] :
                    /\ rpc_metadata' = answers
                    /\ returned' = Some(discover_all_tokens(answer, order, answers))
    /\ UNCHANGED <<rpc_balance, scanVars, txVars, submitVars, serverVars, callVars>>

\* asset.rs, lines 157-185
call_get_asset_info ==
    /\ operation = None
    /\ \E token_mint \in {MintAKey, MintBKey}, answer \in MetadataAnswers :
          /\ operation' = Called("get_asset_info", token_mint)
          /\ rpc_metadata' = [mint \in {token_mint} |-> answer]
          /\ returned' = Some(get_asset_info(token_mint, answer))
    /\ UNCHANGED <<rpc_balance, rpc_accounts, logged, scanVars, txVars, submitVars, serverVars, callVars>>

\* identity.rs, lines 163-175; the token query is made only once the balance
\* query answered
call_get_wallet_info ==
    /\ operation = None
    /\ \E sol \in {Err("ClientError")} \cup {Ok(n) : n \in SolBalances} :
          /\ operation' = Called("get_wallet_info", OwnerKey)
          /\ rpc_balance' = sol
          /\ IF ~sol.ok
             THEN /\ returned' = Some(get_wallet_info(OwnerKey, sol, rpc_accounts))
                  /\ UNCHANGED <<rpc_accounts, logged>>
             ELSE \E answer \in TokenAccountAnswers :
                     /\ rpc_accounts' = answer
                     /\ logged' = get_token_accounts(answer).log
                     /\ returned' = Some(get_wallet_info(OwnerKey, sol, answer))
    /\ UNCHANGED <<rpc_metadata, scanVars, txVars, submitVars, serverVars, callVars>>

HoldingsNext ==
    \/ call_get_token_accounts
    \/ call_get_owned_assets
    \/ call_discover_all_tokens
    \/ call_get_asset_info
    \/ call_get_wallet_info

SpecHoldings == Init /\ [][HoldingsNext]_vars

(***************************************************************************)
(* SpecFirstQuery: one call of any operation that starts with a query, the *)
(* history scan or a holdings operation.                                   *)
(***************************************************************************)
scan_of_history ==
    /\ operation = None
    /\ Next

holdings_operation ==
    /\ pc = "idle"
    /\ HoldingsNext

FirstQueryNext ==
    \/ scan_of_history
    \/ holdings_operation

SpecFirstQuery == Init /\ [][FirstQueryNext]_vars

(***************************************************************************)
(* Submission: send_payment (payment.rs), tokenize_asset (asset.rs) and    *)
(* write_ledger_entry (ledger.rs, lines 311-338).  A key pair is its       *)
(* public key; program ids are kept as their text; a derived address is    *)
(* kept as the seeds it is derived from, so that distinct seeds give       *)
(* distinct addresses and none is a wallet or a mint; a signature is       *)
(* SigStrLen bytes.                                                        *)
(***************************************************************************)
get_associated_token_address(wallet, token_mint) ==
    [wallet_address |-> wallet, token_mint_address |-> token_mint]

\* Metadata::find_pda
find_pda(token_mint) == [metadata_of |-> token_mint]

AssociatedTokenProgramId == "ATokenGPvbdGVxr1b2hvZbsiqW5xWH25efTNsLJA8knL"
SystemProgramId == "11111111111111111111111111111111"
RentSysvarId == "SysvarRent111111111111111111111111111111111"
MetadataProgramId == "metaqbxxUerdq28cj1RbAWkYQm3ybzjb6a8bt518x1s"

\* AccountMeta::new and AccountMeta::new_readonly
AccountMeta_new(pubkey, is_signer) ==
    [pubkey |-> pubkey, is_signer |-> is_signer, is_writable |-> TRUE]

AccountMeta_new_readonly(pubkey, is_signer) ==
    [pubkey |-> pubkey, is_signer |-> is_signer, is_writable |-> FALSE]

Instruction(program_id, accounts, data) ==
    [program_id |-> program_id, accounts |-> accounts, data |-> data]

\* one meta per signer of a token instruction
signer_metas(signer_pubkeys) ==
    [i \in DOMAIN signer_pubkeys |-> AccountMeta_new_readonly(signer_pubkeys[i], TRUE)]

create_associated_token_account(funding_address, wallet_address, token_mint, token_program) ==
    Instruction(AssociatedTokenProgramId,
                <<AccountMeta_new(funding_address, TRUE),
                  AccountMeta_new(get_associated_token_address(wallet_address, token_mint), FALSE),
                  AccountMeta_new_readonly(wallet_address, FALSE),
                  AccountMeta_new_readonly(token_mint, FALSE),
                  AccountMeta_new_readonly(SystemProgramId, FALSE),
                  AccountMeta_new_readonly(token_program, FALSE)>>,
                <<0>>)

\* token_instruction::transfer: tag 3, then the amount
transfer(token_program, source, destination, authority, signer_pubkeys, amount) ==
    Instruction(token_program,
                <<AccountMeta_new(source, FALSE),
                  AccountMeta_new(destination, FALSE),
                  AccountMeta_new_readonly(authority, signer_pubkeys = <<>>)>>
                    \o signer_metas(signer_pubkeys),
                <<3>> \o ToLittleEndian(amount, AmountLen))

\* payment.rs, lines 207-216
build_memo(memo, signer_pubkeys) ==
    Instruction(MemoProgramId, signer_metas(signer_pubkeys), memo)

\* Transaction::new_with_payer, not yet signed
new_with_payer(instructions, payer) ==
    [instructions |-> instructions,
     fee_payer |-> payer,
     signers |-> {},
     recent_blockhash |-> None]

\* Transaction::sign
sign(unsigned, keypairs, recent_blockhash) ==
    [unsigned EXCEPT !.signers = keypairs, !.recent_blockhash = Some(recent_blockhash)]

\* RpcClient::send_and_confirm_transaction: the one submission and its answer
send_and_confirm_transaction(signed, answer) ==
    [sent |-> <<signed>>, ret |-> answer]

\* the memo put before the transfer
payment_instructions_memo_first(from_wallet, to_pubkey, amount, token_mint, memo, lookup) ==
    LET from_ata == get_associated_token_address(from_wallet, token_mint)
        to_ata == get_associated_token_address(to_pubkey, token_mint)
    IN  (IF memo.some THEN <<build_memo(memo.val, <<from_wallet>>)>> ELSE <<>>)
        \o (IF ~lookup.ok
            THEN <<create_associated_token_account(from_wallet, to_pubkey, token_mint,
                                                   TokenProgramId)>>
            ELSE <<>>)
        \o <<transfer(TokenProgramId, from_ata, to_ata, from_wallet, <<from_wallet>>, amount)>>

\* payment.rs, lines 50-91: the Vec of instructions
payment_instructions(from_wallet, to_pubkey, amount, token_mint, memo, lookup) ==
    LET from_ata == get_associated_token_address(from_wallet, token_mint)
        to_ata == get_associated_token_address(to_pubkey, token_mint)
    IN  (IF ~lookup.ok
         THEN <<create_associated_token_account(from_wallet, to_pubkey, token_mint,
                                                TokenProgramId)>>
         ELSE <<>>)
        \o <<transfer(TokenProgramId, from_ata, to_ata, from_wallet, <<from_wallet>>, amount)>>
        \o (IF memo.some THEN <<build_memo(memo.val, <<from_wallet>>)>> ELSE <<>>)

\* payment.rs, lines 34-102: what was submitted and Result<Signature>
send_payment(from_wallet, to_pubkey, amount, token_mint, memo, answers) ==
    LET instructions == payment_instructions(from_wallet, to_pubkey, amount, token_mint, memo,
                                             answers.get_account)
        recent_blockhash == answers.get_latest_blockhash
    IN  IF ~recent_blockhash.ok THEN [sent |-> <<>>, ret |-> recent_blockhash]
        ELSE send_and_confirm_transaction(
                 sign(new_with_payer(instructions, from_wallet), {from_wallet},
                      recent_blockhash.val),
                 answers.send_and_confirm_transaction)

\* ledger.rs, lines 311-338
write_ledger_entry(wallet, entry_data, answers) ==
    LET memo_ix == Instruction(MemoProgramId, <<AccountMeta_new_readonly(wallet, TRUE)>>,
                               entry_data)
        recent_blockhash == answers.get_latest_blockhash
    IN  IF ~recent_blockhash.ok THEN [sent |-> <<>>, ret |-> recent_blockhash]
        ELSE send_and_confirm_transaction(
                 sign(new_with_payer(<<memo_ix>>, wallet), {wallet}, recent_blockhash.val),
                 answers.send_and_confirm_transaction)

\* system_instruction::create_account: tag 0, lamports, space, owner
create_account(from_pubkey, to_pubkey, lamports, space, owner_program) ==
    Instruction(SystemProgramId,
                <<AccountMeta_new(from_pubkey, TRUE),
                  AccountMeta_new(to_pubkey, TRUE)>>,
                <<0>> \o ToLittleEndian(lamports, AmountLen) \o <<space, owner_program>>)

\* token_instruction::initialize_mint: tag 0, decimals, the two authorities
initialize_mint(token_program, token_mint, mint_authority, freeze_authority, decimals) ==
    Instruction(token_program,
                <<AccountMeta_new(token_mint, FALSE),
                  AccountMeta_new_readonly(RentSysvarId, FALSE)>>,
                <<0, decimals, mint_authority>>
                    \o (IF freeze_authority.some THEN <<1, freeze_authority.val>> ELSE <<0>>))

\* token_instruction::mint_to: tag 7, then the amount
mint_to(token_program, token_mint, account, mint_owner, signer_pubkeys, amount) ==
    Instruction(token_program,
                <<AccountMeta_new(token_mint, FALSE),
                  AccountMeta_new(account, FALSE),
                  AccountMeta_new_readonly(mint_owner, signer_pubkeys = <<>>)>>
                    \o signer_metas(signer_pubkeys),
                <<7>> \o ToLittleEndian(amount, AmountLen))

\* asset.rs, lines 89-120: CreateMetadataAccountV3, tag 33, the name and "FINT"
create_metadata_account(token_mint, wallet, name) ==
    Instruction(MetadataProgramId,
                <<AccountMeta_new(find_pda(token_mint), FALSE),
                  AccountMeta_new_readonly(token_mint, FALSE),
                  AccountMeta_new_readonly(wallet, TRUE),
                  AccountMeta_new(wallet, TRUE),
                  AccountMeta_new_readonly(wallet, TRUE),
                  AccountMeta_new_readonly(SystemProgramId, FALSE)>>,
                <<33>> \o name \o <<70, 73, 78, 84>>)

\* asset.rs, lines 21-154: what was submitted and Result<(Pubkey, AssetMetadata)>;
\* mint_keypair is the Keypair::new() of line 37, answers.now the clock of
\* line 149
tokenize_asset(name, description, value, asset_type, wallet, mint_keypair, answers) ==
    LET mint_pubkey == mint_keypair
        recent_blockhash == answers.get_latest_blockhash
        mint_rent == answers.get_minimum_balance_for_rent_exemption
        associated_token_account == get_associated_token_address(wallet, mint_pubkey)
        instructions ==
            <<create_account(wallet, mint_pubkey, mint_rent.val, 82, TokenProgramId),
              initialize_mint(TokenProgramId, mint_pubkey, wallet, Some(wallet), 0),
              create_associated_token_account(wallet, wallet, mint_pubkey, TokenProgramId),
              mint_to(TokenProgramId, mint_pubkey, associated_token_account, wallet,
                      <<wallet>>, 1),
              create_metadata_account(mint_pubkey, wallet, name)>>
    IN  IF ~recent_blockhash.ok THEN [sent |-> <<>>, ret |-> recent_blockhash]
        ELSE IF ~mint_rent.ok THEN [sent |-> <<>>, ret |-> mint_rent]
        ELSE LET submission ==
                     send_and_confirm_transaction(
                         sign(new_with_payer(instructions, wallet), {wallet, mint_keypair},
                              recent_blockhash.val),
                         answers.send_and_confirm_transaction)
             IN  IF ~submission.ret.ok THEN submission
                 ELSE IF ~answers.now.ok THEN [sent |-> submission.sent, ret |-> answers.now]
                 ELSE [sent |-> submission.sent,
                       ret |-> Ok(<<mint_pubkey,
                                    [name |-> name,
                                     description |-> description,
                                     value |-> value,
                                     issuer |-> wallet,
                                     asset_type |-> asset_type,
                                     created_at |-> answers.now.val,
                                     token_mint |-> Some(mint_pubkey)]>>)]

\* a balance that does not parse taken for an error
get_token_balance_strict(wallet_pubkey, token_mint, answer) ==
    IF answer.ok THEN ParseU64(answer.val.amount) ELSE Ok(0)

\* payment.rs, lines 126-156: Result<u64>
get_token_balance(wallet_pubkey, token_mint, answer) ==
    IF answer.ok THEN Ok(unwrap_or(ParseU64(answer.val.amount), 0)) ELSE Ok(0)

\* payment.rs, lines 189-197: Result<bool>
can_afford_payment(wallet_pubkey, token_mint, amount, answer) ==
    LET balance == get_token_balance(wallet_pubkey, token_mint, answer)
    IN  IF ~balance.ok THEN balance ELSE Ok(balance.val >= amount)

(***************************************************************************)
(* SpecSubmit: one call of a payment, tokenization or ledger-entry         *)
(* operation, every request it makes answered by the query layer.          *)
(***************************************************************************)
RecipientKey == ParsePubkey(KeyStr("R")).val
Recipients == {OwnerKey, RecipientKey}
Amounts == {0, 1, U64Max}
Memos == {None, Some(<<>>), Some(<<104, 105>>)}

ClientErr == Err("ClientError")

\* get_account of the recipient's associated account; the account's content
\* is not read
AccountLookups == {ClientErr, Ok("Account")}
Blockhashes == {ClientErr, Ok(1)}
RentAnswers == {ClientErr, Ok(1)}
SubmitSignatures == {[i \in 1..SigStrLen |-> b] : b \in {1, 2}}
SubmitAnswers == {ClientErr} \cup {Ok(sig) : sig \in SubmitSignatures}
ClockAnswers == {Err("SystemTimeError"), Ok(9)}
BalanceAnswers ==
    {ClientErr} \cup {Ok([amount |-> str]) : str \in PostAmountStrings \cup {<<"x">>}}

\* the submission is asked for only once the queries before it answered
SubmitAnswersAfter(queries) ==
    IF \A q \in queries : q.ok THEN SubmitAnswers ELSE {ClientErr}

call_send_payment ==
    /\ request = None
    /\ \E to_pubkey \in Recipients, amount \in Amounts, memo \in Memos,
          lookup \in AccountLookups, blockhash \in Blockhashes :
          \E confirmation \in SubmitAnswersAfter({blockhash}) :
             LET answers == [get_account |-> lookup,
                             get_latest_blockhash |-> blockhash,
                             send_and_confirm_transaction |-> confirmation]
                 outcome == send_payment(OwnerKey, to_pubkey, amount, MintAKey, memo, answers)
             IN  /\ request' = Called("send_payment",
                                      [to_pubkey |-> to_pubkey, amount |-> amount,
                                       token_mint |-> MintAKey, memo |-> memo])
                 /\ rpc_answers' = answers
                 /\ sent' = outcome.sent
                 /\ result' = Some(outcome.ret)
    /\ UNCHANGED <<scanVars, txVars, holdVars, serverVars, callVars>>

call_tokenize_asset ==
    /\ request = None
    /\ \E name \in {<<>>, <<104, 105>>}, value \in {0, U64Max},
          mint_keypair \in {MintAKey, MintBKey},
          blockhash \in Blockhashes :
          \E rent \in (IF blockhash.ok THEN RentAnswers ELSE {ClientErr}) :
          \E confirmation \in SubmitAnswersAfter({blockhash, rent}) :
          \E clock \in (IF confirmation.ok THEN ClockAnswers ELSE {Err("SystemTimeError")}) :
             LET answers == [get_latest_blockhash |-> blockhash,
                             get_minimum_balance_for_rent_exemption |-> rent,
                             send_and_confirm_transaction |-> confirmation,
                             now |-> clock]
                 outcome == tokenize_asset(name, <<100>>, value, <<116>>, OwnerKey,
                                           mint_keypair, answers)
             IN  /\ request' = Called("tokenize_asset",
                                      [name |-> name, value |-> value,
                                       mint_keypair |-> mint_keypair])
                 /\ rpc_answers' = answers
                 /\ sent' = outcome.sent
                 /\ result' = Some(outcome.ret)
    /\ UNCHANGED <<scanVars, txVars, holdVars, serverVars, callVars>>

call_write_ledger_entry ==
    /\ request = None
    /\ \E entry_data \in {<<>>, <<104, 105>>}, blockhash \in Blockhashes :
          \E confirmation \in SubmitAnswersAfter({blockhash}) :
             LET answers == [get_latest_blockhash |-> blockhash,
                             send_and_confirm_transaction |-> confirmation]
                 outcome == write_ledger_entry(OwnerKey, entry_data, answers)
             IN  /\ request' = Called("write_ledger_entry", [entry_data |-> entry_data])
                 /\ rpc_answers' = answers
                 /\ sent' = outcome.sent
                 /\ result' = Some(outcome.ret)
    /\ UNCHANGED <<scanVars, txVars, holdVars, serverVars, callVars>>

call_get_token_balance ==
    /\ request = None
    /\ \E answer \in BalanceAnswers :
          /\ request' = Called("get_token_balance", [token_mint |-> MintAKey])
          /\ rpc_answers' = [get_token_account_balance |-> answer]
          /\ result' = Some(get_token_balance(OwnerKey, MintAKey, answer))
    /\ UNCHANGED <<sent, scanVars, txVars, holdVars, serverVars, callVars>>

call_can_afford_payment ==
    /\ request = None
    /\ \E amount \in Amounts, answer \in BalanceAnswers :
          /\ request' = Called("can_afford_payment",
                               [token_mint |-> MintAKey, amount |-> amount])
          /\ rpc_answers' = [get_token_account_balance |-> answer]
          /\ result' = Some(can_afford_payment(OwnerKey, MintAKey, amount, answer))
    /\ UNCHANGED <<sent, scanVars, txVars, holdVars, serverVars, callVars>>

SubmitNext ==
    \/ call_send_payment
    \/ call_tokenize_asset
    \/ call_write_ledger_entry
    \/ call_get_token_balance
    \/ call_can_afford_payment

SpecSubmit == Init /\ [][SubmitNext]_vars

(***************************************************************************)
(* SpecServer: main of the HTTP server (bin/api_server.rs): the two        *)
(* globals are set, the listener is bound, and requests are served, each   *)
(* by a handler of its own that runs beside the others.                    *)
(***************************************************************************)
MaxRequests == 2

\* the routes of lines 294-300, by the handler each one names
Routes ==
    {"health_check", "tokenize_asset", "send_payment", "get_wallet_info",
     "get_owned_assets", "get_transaction_history", "get_asset_info"}

\* the handlers that call get_client, and those that call get_wallet after it
ClientRoutes == Routes \ {"health_check"}
WalletRoutes == ClientRoutes \ {"get_asset_info"}

\* requests taken whatever main has reached
accepting_from_the_start == TRUE

\* line 309: axum::serve takes requests once main has reached it
accepting == main_pc = "serve"

\* a write to a global, with the number of handlers in flight when it is made
Write(global) == [global |-> global, handlers_in_flight |-> Len(handlers)]

\* line 80
initialize_client_CLIENT ==
    /\ main_pc = "initialize_client"
    /\ CLIENT' = Some("FinternetClient")
    /\ writes' = Append(writes, Write("CLIENT"))
    /\ main_pc' = "load_default_wallet"
    /\ UNCHANGED <<WALLET, handlers, scanVars, txVars, holdVars, submitVars, callVars>>

\* lines 81-83 and 284: the wallet loaded and stored, or main left with the error
initialize_client_WALLET ==
    /\ main_pc = "load_default_wallet"
    /\ \E loaded \in {Err("WalletError"), Ok(OwnerKey)} :
          IF loaded.ok
          THEN /\ WALLET' = Some(loaded.val)
               /\ writes' = Append(writes, Write("WALLET"))
               /\ main_pc' = "bind"
          ELSE /\ main_pc' = "exited"
               /\ UNCHANGED <<WALLET, writes>>
    /\ UNCHANGED <<CLIENT, handlers, scanVars, txVars, holdVars, submitVars, callVars>>

\* line 302
bind_listener ==
    /\ main_pc = "bind"
    /\ \E bound \in BOOLEAN : main_pc' = (IF bound THEN "serve" ELSE "exited")
    /\ UNCHANGED <<CLIENT, WALLET, writes, handlers,
                   scanVars, txVars, holdVars, submitVars, callVars>>

\* a request arrives and its handler starts
accept_request ==
    /\ accepting
    /\ Len(handlers) < MaxRequests
    /\ \E route \in Routes :
          handlers' = Append(handlers,
                             [route |-> route,
                              at |-> IF route \in ClientRoutes THEN "get_client" ELSE "respond",
                              client |-> None,
                              wallet |-> None])
    /\ UNCHANGED <<main_pc, CLIENT, WALLET, writes,
                   scanVars, txVars, holdVars, submitVars, callVars>>

\* lines 86-88: CLIENT.as_ref().expect("Client not initialized")
handler_get_client ==
    /\ \E h \in DOMAIN handlers :
          /\ handlers[h].at = "get_client"
          /\ handlers' =
                 [handlers EXCEPT
                    ![h].client = CLIENT,
                    ![h].at = IF ~CLIENT.some THEN "panicked"
                              ELSE IF handlers[h].route \in WalletRoutes THEN "get_wallet"
                              ELSE "respond"]
    /\ UNCHANGED <<main_pc, CLIENT, WALLET, writes,
                   scanVars, txVars, holdVars, submitVars, callVars>>

\* lines 90-92: WALLET.as_ref().expect("Wallet not initialized")
handler_get_wallet ==
    /\ \E h \in DOMAIN handlers :
          /\ handlers[h].at = "get_wallet"
          /\ handlers' =
                 [handlers EXCEPT
                    ![h].wallet = WALLET,
                    ![h].at = IF ~WALLET.some THEN "panicked" ELSE "respond"]
    /\ UNCHANGED <<main_pc, CLIENT, WALLET, writes,
                   scanVars, txVars, holdVars, submitVars, callVars>>

\* the rest of the handler, which touches neither global
handler_respond ==
    /\ \E h \in DOMAIN handlers :
          /\ handlers[h].at = "respond"
          /\ handlers' = [handlers EXCEPT ![h].at = "done"]
    /\ UNCHANGED <<main_pc, CLIENT, WALLET, writes,
                   scanVars, txVars, holdVars, submitVars, callVars>>

ServerNext ==
    \/ initialize_client_CLIENT
    \/ initialize_client_WALLET
    \/ bind_listener
    \/ accept_request
    \/ handler_get_client
    \/ handler_get_wallet
    \/ handler_respond

SpecServer == Init /\ [][ServerNext]_vars

(***************************************************************************)
(* SpecCalls: several calls in flight at once on one FinternetClient, each *)
(* a get_transaction_history or a get_token_accounts with its own locals,  *)
(* their requests to the query layer interleaved in any order.             *)
(***************************************************************************)
Callers == {1, 2}

\* one scan per address
OwnerOf(c) == IF c = 1 THEN OwnerKey ELSE RecipientKey

NoMetaTransaction == [meta |-> None, block_time |-> Some(7), instructions |-> <<TransferIx>>]

CallLimitArgs == {None, Some(1)}

CallSignatureLists ==
    {<<>>,
     <<[signature |-> SigStr(1), block_time |-> Some(10)],
       [signature |-> SigStr(2), block_time |-> None]>>,
     <<[signature |-> SigStr(1), block_time |-> Some(10)],
       [signature |-> BadSigStr(2), block_time |-> None]>>}

CallFetchAnswers == {ClientErr, Ok(ChangedTransaction), Ok(NoMetaTransaction)}

CallAccountAnswers == {a \in TokenAccountAnswers : a.ok => Len(a.val) <= 1}

\* the locals of a call not yet made
IdleCall ==
    [operation |-> "none",
     at |-> "idle",
     limit |-> 0,
     rpc_signatures |-> ClientErr,
     pos |-> 0,
     transaction_records |-> <<>>,
     responses |-> <<>>,
     rpc_accounts |-> ClientErr,
     ret |-> Pending]

CallsInit ==
    /\ ScanInit
    /\ TxIdle
    /\ HoldIdle
    /\ SubmitIdle
    /\ ServerStart
    /\ calls = [c \in Callers |-> IdleCall]

\* one Vec for all the calls, that of the first
records_of_first_call(c) == calls[1].transaction_records

\* line 40: the Vec of the call
records_of(c) == calls[c].transaction_records

\* lines 21-40 of call c
call_starts_history(c) ==
    /\ calls[c].at = "idle"
    /\ \E arg \in CallLimitArgs,
          answer \in {ClientErr} \cup {Ok(l) : l \in CallSignatureLists} :
          calls' = [calls EXCEPT
                      ![c].operation = "get_transaction_history",
                      ![c].limit = limit_or_default(arg),
                      ![c].rpc_signatures = answer,
                      ![c].at = IF answer.ok THEN "scanning" ELSE "done",
                      ![c].ret = IF answer.ok THEN Pending ELSE Some(answer)]
    /\ UNCHANGED <<scanVars, txVars, holdVars, submitVars, serverVars>>

\* lines 43-99 of call c: one iteration, its fetch answered
call_processes_signature(c) ==
    /\ calls[c].at = "scanning"
    /\ calls[c].pos < take_len(calls[c].rpc_signatures.val, calls[c].limit)
    /\ \E response \in CallFetchAnswers :
          LET sig_info == calls[c].rpc_signatures.val[calls[c].pos + 1]
              out == history_iteration(OwnerOf(c), sig_info, response, records_of(c))
          IN  calls' = [calls EXCEPT
                          ![c].responses = Append(@, response),
                          ![c].transaction_records = IF out.ok THEN out.val ELSE @,
                          ![c].pos = IF out.ok THEN @ + 1 ELSE @,
                          ![c].at = IF out.ok THEN @ ELSE "done",
                          ![c].ret = IF out.ok THEN @ ELSE Some(out)]
    /\ UNCHANGED <<scanVars, txVars, holdVars, submitVars, serverVars>>

\* lines 101-102 of call c
call_returns_records(c) ==
    /\ calls[c].at = "scanning"
    /\ calls[c].pos >= take_len(calls[c].rpc_signatures.val, calls[c].limit)
    /\ calls' = [calls EXCEPT ![c].at = "done", ![c].ret = Some(Ok(records_of(c)))]
    /\ UNCHANGED <<scanVars, txVars, holdVars, submitVars, serverVars>>

\* lines 161-269 of call c: its one request and the decoding of the answer
call_gets_token_accounts(c) ==
    /\ calls[c].at = "idle"
    /\ \E answer \in CallAccountAnswers :
          calls' = [calls EXCEPT
                      ![c].operation = "get_token_accounts",
                      ![c].rpc_accounts = answer,
                      ![c].at = "done",
                      ![c].ret = Some(get_token_accounts(answer).ret)]
    /\ UNCHANGED <<scanVars, txVars, holdVars, submitVars, serverVars>>

CallsNext ==
    \E c \in Callers :
        \/ call_starts_history(c)
        \/ call_processes_signature(c)
        \/ call_returns_records(c)
        \/ call_gets_token_accounts(c)

SpecCalls == CallsInit /\ [][CallsNext]_vars

(***************************************************************************)
(* Properties of the history scan (Spec).                                  *)
(***************************************************************************)
ReturnedOk == ret.some /\ ret.val.ok
ReturnedRecords == ret.val.val

\* the parsed signature of the i-th entry of the response
SignatureAt(i) == ParseSignature(signatures[i].signature)

HasRecordOf(records, i) ==
    /\ SignatureAt(i).ok
    /\ \E j \in DOMAIN records : records[j].signature = SignatureAt(i).val

\* C1: when the fetch for the signature at position i fails, every later
\* signature whose transaction was fetched and holds a balance-changing pair
\* has its record in the returned list.
C1_ScanContinuesPastFailedFetch ==
    pc = "done" =>
        \A i, j \in DOMAIN fetched :
            (i < j /\ fetched[i] = "failed" /\ fetched[j] \in {"changed", "changed_many"})
                => (ReturnedOk /\ HasRecordOf(ReturnedRecords, j))

\* C2: the call returns at most `limit` records, also when the response
\* carries more signatures than the limit and transactions change several
\* balances.
C2_AtMostLimitRecords ==
    /\ Len(transaction_records) <= limit
    /\ ReturnedOk => Len(ReturnedRecords) <= limit

C2_Witness ==
    /\ ReturnedOk
    /\ limit >= 1
    /\ Len(signatures) > limit
    /\ Len(ReturnedRecords) = limit
    /\ \E i \in DOMAIN fetched : fetched[i] = "changed_many"

\* C3: once the signature list has been obtained the call returns a record
\* list, never an error: the only error it returns is the failure of the
\* signature query itself.
C3_NoErrorAfterSignatures ==
    ret.some => (ret.val.ok \/ ret.val.error = "ClientError")

\* C4: the returned records follow the response's signature order: each
\* record's signature is one of the first `limit` signatures, and a record
\* that precedes another has the earlier signature.
C4_OrderPreservingSubsequence ==
    ReturnedOk =>
        /\ \A j \in DOMAIN ReturnedRecords :
               \E i \in 1..Min(Len(signatures), limit) :
                   SignatureAt(i) = Ok(ReturnedRecords[j].signature)
        /\ \A a, b \in DOMAIN ReturnedRecords :
               a < b =>
                   \A ia, ib \in DOMAIN signatures :
                       ( /\ SignatureAt(ia) = Ok(ReturnedRecords[a].signature)
                         /\ SignatureAt(ib) = Ok(ReturnedRecords[b].signature) )
                           => ia < ib

C4_Witness ==
    /\ ReturnedOk
    /\ Len(ReturnedRecords) = 2
    /\ Len(fetched) = 3
    /\ fetched[2] = "failed"
    /\ HasRecordOf(ReturnedRecords, 1)
    /\ HasRecordOf(ReturnedRecords, 3)

(***************************************************************************)
(* Properties of the reconstruction of one transaction (SpecTx).           *)
(***************************************************************************)
Abs(x) == IF x < 0 THEN -x ELSE x

Tx == transaction.val

BothSnapshots ==
    /\ transaction.ok
    /\ Tx.meta.some
    /\ Tx.meta.val.pre_token_balances.some
    /\ Tx.meta.val.post_token_balances.some

Pre == Tx.meta.val.pre_token_balances.val
Post == Tx.meta.val.post_token_balances.val

\* the positions both snapshots have
Overlap == 1..Min(Len(Pre), Len(Post))

\* the amount string of an entry, parsed
Parsed(balance) == ParseU64(balance.ui_token_amount.amount)

\* its value, a string that does not parse counting as zero
Value(balance) == IF Parsed(balance).ok THEN Parsed(balance).val ELSE 0

Delta(k) == Abs(Value(Post[k]) - Value(Pre[k]))

SameIndex(k) == Pre[k].account_index = Post[k].account_index

HistoryDone == hist.some
HistoryRecords == hist.val.val
DetailsDone == det.some
DetailsRecord == det.val.val

NoHistoryRecord == hist.val = Ok(<<>>)
NoDetailsRecord == det.val = Ok(None)

\* every record either operation produced
Produced ==
    (IF HistoryDone /\ hist.val.ok THEN Range(HistoryRecords) ELSE {})
    \cup
    (IF DetailsDone /\ det.val.ok /\ DetailsRecord.some THEN {DetailsRecord.val} ELSE {})

OnePair(index, mint, pre_amount, post_amount) ==
    /\ BothSnapshots
    /\ Pre = <<[account_index |-> index, mint |-> mint,
                ui_token_amount |-> [amount |-> pre_amount]]>>
    /\ Len(Post) = 1
    /\ Post[1].account_index = index
    /\ Post[1].ui_token_amount.amount = post_amount

\* C5: a record's amount is |post - pre| of the parsed amounts of a
\* balance-changing pair, a positive u64 whichever of the two is larger;
\* pre "100", post "60" gives exactly one record of amount 40, and so does
\* pre "60", post "100".
C5_AmountIsAbsoluteDifference ==
    /\ \A r \in Produced :
           /\ BothSnapshots
           /\ \E k \in Overlap :
                  /\ SameIndex(k)
                  /\ Value(Pre[k]) # Value(Post[k])
                  /\ r.amount = Delta(k)
           /\ r.amount \in 1..U64Max
    /\ \A io \in {<<"1", "0", "0">>, <<"6", "0">>} \X {<<"1", "0", "0">>, <<"6", "0">>} :
           (io[1] # io[2] /\ OnePair(0, MintA, io[1], io[2])) =>
               /\ HistoryDone =>
                      /\ hist.val.ok
                      /\ Len(HistoryRecords) = 1
                      /\ HistoryRecords[1].amount = 40
               /\ DetailsDone =>
                      /\ det.val.ok
                      /\ DetailsRecord.some
                      /\ DetailsRecord.val.amount = 40

C5_Witness ==
    /\ OnePair(0, MintA, <<"1", "0", "0">>, <<"6", "0">>)
    /\ DetailsDone
    /\ hist.val.ok
    /\ Len(HistoryRecords) = 1
    /\ HistoryRecords[1].amount = 40

\* C6: a transaction without metadata, or without the pre snapshot, or
\* without the post snapshot, gives no history record and details None.
C6_AbsentSnapshotNoRecord ==
    (transaction.ok /\ ~BothSnapshots) =>
        /\ HistoryDone => NoHistoryRecord
        /\ DetailsDone => NoDetailsRecord

C6_Witness ==
    /\ transaction.ok
    /\ Tx.meta.some
    /\ Tx.meta.val.pre_token_balances.some
    /\ Len(Tx.meta.val.pre_token_balances.val) = 1
    /\ ~Tx.meta.val.post_token_balances.some
    /\ DetailsDone
    /\ NoHistoryRecord
    /\ NoDetailsRecord

\* C7: when the parsed pre and post amounts are equal in every pair, the
\* transaction produces no record, however many token accounts it lists.
C7_EqualAmountsNoRecord ==
    (BothSnapshots /\ \A k \in Overlap : Value(Pre[k]) = Value(Post[k])) =>
        /\ HistoryDone => NoHistoryRecord
        /\ DetailsDone => NoDetailsRecord

C7_Witness ==
    /\ BothSnapshots
    /\ Len(Pre) = 2
    /\ Len(Post) = 2
    /\ \A k \in Overlap : SameIndex(k) /\ Value(Pre[k]) = Value(Post[k])
    /\ \E k \in Overlap : Value(Pre[k]) > 0
    /\ \E k \in Overlap : Pre[k].ui_token_amount.amount # Post[k].ui_token_amount.amount
    /\ DetailsDone
    /\ NoHistoryRecord

\* the compared pairs whose amounts differ, and the first of them
Changed == {k \in Overlap : SameIndex(k) /\ Value(Pre[k]) # Value(Post[k])}
FirstChanged == CHOOSE k \in Changed : \A m \in Changed : k <= m

\* C8: a transaction contributes at most one record, the one of the first
\* pair in snapshot order whose amounts differ; a later changed pair is not
\* reported.
C8_FirstChangedPairOnly ==
    /\ HistoryDone /\ hist.val.ok => Len(HistoryRecords) <= 1
    /\ \A r \in Produced :
           /\ BothSnapshots
           /\ Changed # {}
           /\ r.amount = Delta(FirstChanged)
           /\ Ok(r.token_mint) = ParsePubkey(Pre[FirstChanged].mint)
    /\ (BothSnapshots /\ Changed # {} /\ ParsePubkey(Pre[FirstChanged].mint).ok) =>
           /\ HistoryDone => (hist.val.ok /\ Len(HistoryRecords) = 1)
           /\ DetailsDone => (det.val.ok /\ DetailsRecord.some)

C8_Witness ==
    /\ BothSnapshots
    /\ Cardinality(Changed) = 2
    /\ \E k \in Changed : Delta(k) # Delta(FirstChanged)
    /\ DetailsDone
    /\ hist.val.ok
    /\ Len(HistoryRecords) = 1
    /\ HistoryRecords[1].amount = Delta(FirstChanged)

AllMintsParse == \A k \in DOMAIN Pre : ParsePubkey(Pre[k].mint).ok

\* C9: an amount string that does not parse counts as 0 and raises nothing:
\* a first pair with an unparseable pre amount and post amount N > 0 gives a
\* record of amount N, and a pair with an unparseable amount on one side and
\* zero or an unparseable amount on the other gives no record.
C9_UnparseableAmountIsZero ==
    BothSnapshots =>
        /\ AllMintsParse =>
               /\ HistoryDone => hist.val.ok
               /\ DetailsDone => det.val.ok
        /\ ( /\ 1 \in Overlap
             /\ SameIndex(1)
             /\ ~Parsed(Pre[1]).ok
             /\ Parsed(Post[1]).ok
             /\ Parsed(Post[1]).val > 0
             /\ ParsePubkey(Pre[1].mint).ok ) =>
               /\ HistoryDone =>
                      /\ hist.val.ok
                      /\ Len(HistoryRecords) = 1
                      /\ HistoryRecords[1].amount = Parsed(Post[1]).val
               /\ DetailsDone =>
                      /\ det.val.ok
                      /\ DetailsRecord.some
                      /\ DetailsRecord.val.amount = Parsed(Post[1]).val
        /\ ( /\ Overlap = {1}
             /\ ~Parsed(Pre[1]).ok \/ ~Parsed(Post[1]).ok
             /\ Value(Pre[1]) = 0
             /\ Value(Post[1]) = 0 ) =>
               /\ HistoryDone => NoHistoryRecord
               /\ DetailsDone => NoDetailsRecord

C9_Witness ==
    /\ BothSnapshots
    /\ 1 \in Overlap
    /\ SameIndex(1)
    /\ ~Parsed(Pre[1]).ok
    /\ Parsed(Post[1]).ok
    /\ Parsed(Post[1]).val > 0
    /\ DetailsDone
    /\ hist.val.ok
    /\ Len(HistoryRecords) = 1
    /\ HistoryRecords[1].amount = Parsed(Post[1]).val

\* C10: entries are paired position by position and compared only when the
\* two account indices are equal: a pair with different indices gives no
\* record, and entries beyond the shorter snapshot give none.
C10_PositionalPairsOfEqualIndex ==
    /\ (BothSnapshots /\ \A k \in Overlap : ~SameIndex(k)) =>
           /\ HistoryDone => NoHistoryRecord
           /\ DetailsDone => NoDetailsRecord
    /\ \A r \in Produced :
           /\ BothSnapshots
           /\ \E k \in Overlap :
                  /\ SameIndex(k)
                  /\ r.amount = Delta(k)
                  /\ Ok(r.token_mint) = ParsePubkey(Pre[k].mint)

C10_Witness ==
    /\ BothSnapshots
    /\ Len(Pre) = 2
    /\ Len(Post) = 1
    /\ ~SameIndex(1)
    /\ Value(Pre[1]) # Value(Post[1])
    /\ Pre[2].account_index = Post[1].account_index
    /\ Value(Pre[2]) # Value(Post[1])
    /\ DetailsDone
    /\ NoHistoryRecord
    /\ NoDetailsRecord

\* C11: every record of get_transaction_history has the queried address as
\* its `from` and as its `to`, and its mint is the mint of the pre-snapshot
\* entry of the balance-changing pair (not the post entry's).
C11_SelfReferentialRecordOfPreMint ==
    (HistoryDone /\ hist.val.ok) =>
        \A j \in DOMAIN HistoryRecords :
            /\ HistoryRecords[j].from = owner
            /\ HistoryRecords[j].to = owner
            /\ BothSnapshots
            /\ Changed # {}
            /\ Ok(HistoryRecords[j].token_mint) = ParsePubkey(Pre[FirstChanged].mint)

C11_Witness ==
    /\ HistoryDone
    /\ hist.val.ok
    /\ Len(HistoryRecords) = 1
    /\ owner # DefaultKey
    /\ HistoryRecords[1].from = owner
    /\ ParsePubkey(Post[FirstChanged].mint).ok
    /\ ParsePubkey(Post[FirstChanged].mint) # ParsePubkey(Pre[FirstChanged].mint)
    /\ Ok(HistoryRecords[1].token_mint) = ParsePubkey(Pre[FirstChanged].mint)

\* the text of a byte string of ASCII letters
Utf8Text(bytes) ==
    [i \in DOMAIN bytes |->
        CASE bytes[i] = 104 -> "h"
          [] bytes[i] = 105 -> "i"
          [] OTHER -> "?"]

MemoInstructions == {i \in DOMAIN Tx.instructions : Tx.instructions[i].program_id = MemoProgramId}

\* C12: a record's memo is Some(the payload of the transaction's memo-program
\* instruction as text) when the transaction has one and None when it has
\* none, and a transaction whose mint parses is reconstructed whatever its
\* instructions are.
C12_MemoOfMemoInstruction ==
    /\ \A r \in Produced :
           IF MemoInstructions = {}
           THEN r.memo = None
           ELSE \E i \in MemoInstructions : r.memo = Some(Utf8Text(Tx.instructions[i].data))
    /\ (BothSnapshots /\ AllMintsParse) =>
           /\ HistoryDone => hist.val.ok
           /\ DetailsDone => det.val.ok

(***************************************************************************)
(* Properties of the holdings operations (SpecHoldings).                   *)
(***************************************************************************)
CalledOp(name) == operation.some /\ operation.val.name = name

\* the accounts of the answer, and the answer without its k-th account
Accounts == rpc_accounts.val
Without(k) == [i \in 1..(Len(Accounts) - 1) |-> IF i < k THEN Accounts[i] ELSE Accounts[i + 1]]

\* the map of a response that holds this account alone
Alone(account) == get_token_accounts(Ok(<<account>>)).ret.val

\* the value the operation returned, when it returned Ok
ReturnedValue == returned.val.val

\* the ways the claim lists in which an account fails to decode
UnsupportedEncoding(data) ==
    data.format = "Binary" /\ data.encoding \notin {"Base64", "Base58"}

UndecodableText(data) ==
    /\ data.format = "Binary"
    /\ \/ data.encoding = "Base64" /\ ~Base64Decode(data.data).ok
       \/ data.encoding = "Base58" /\ ~Base58Decode(data.data).ok

WrongLength(data) ==
    /\ data.format = "Binary"
    /\ \/ /\ data.encoding = "Base64"
          /\ Base64Decode(data.data).ok
          /\ Len(Base64Decode(data.data).val) # AccountLen
       \/ /\ data.encoding = "Base58"
          /\ Base58Decode(data.data).ok
          /\ Len(Base58Decode(data.data).val) # AccountLen

UnsupportedFormat(data) == data.format \notin {"Binary", "Json"}

DecodeFailure(account) ==
    \/ UnsupportedEncoding(account.account.data)
    \/ UndecodableText(account.account.data)
    \/ WrongLength(account.account.data)
    \/ UnsupportedFormat(account.account.data)

\* C13: get_token_accounts, once the query answered, returns a map whatever
\* the accounts are; an account that fails to decode (unsupported encoding,
\* undecodable text, wrong length, unsupported format) leaves the map as it
\* is without that account, and the mint of every account that decodes is in
\* the map.
C13_DecodeFailureSkipsOneAccount ==
    (CalledOp("get_token_accounts") /\ rpc_accounts.ok) =>
        /\ returned.val.ok
        /\ \A k \in DOMAIN Accounts :
               /\ DecodeFailure(Accounts[k]) =>
                      /\ Alone(Accounts[k]) = EmptyMap
                      /\ ReturnedValue = get_token_accounts(Ok(Without(k))).ret.val
               /\ DOMAIN Alone(Accounts[k]) \subseteq DOMAIN ReturnedValue

C13_Witness ==
    /\ CalledOp("get_token_accounts")
    /\ rpc_accounts.ok
    /\ Len(Accounts) = 2
    /\ UnsupportedEncoding(Accounts[1].account.data)
    /\ Alone(Accounts[2]) # EmptyMap
    /\ returned.val.ok
    /\ ReturnedValue = Alone(Accounts[2])

\* the accounts of the answer that decode, by position
Decoding == {k \in DOMAIN Accounts : Alone(Accounts[k]) # EmptyMap}

MintOf(k) == CHOOSE mint \in DOMAIN Alone(Accounts[k]) : TRUE
AmountOf(k) == Alone(Accounts[k])[MintOf(k)]

\* the last account of the answer that decodes to this mint
LastOf(mint) ==
    CHOOSE k \in Decoding :
        /\ MintOf(k) = mint
        /\ \A j \in Decoding : MintOf(j) = mint => j <= k

\* C14: the map of get_token_accounts has exactly the mints of the accounts
\* that decode as its keys, and under each mint the amount of the last
\* account of the answer that carries it: the amounts of one mint are not
\* added up and the first does not stay.
C14_LastAccountOfMintWins ==
    (CalledOp("get_token_accounts") /\ rpc_accounts.ok) =>
        /\ returned.val.ok
        /\ DOMAIN ReturnedValue = {MintOf(k) : k \in Decoding}
        /\ \A mint \in DOMAIN ReturnedValue : ReturnedValue[mint] = AmountOf(LastOf(mint))

C14_Witness ==
    /\ CalledOp("get_token_accounts")
    /\ rpc_accounts.ok
    /\ Decoding = {1, 2}
    /\ MintOf(1) = MintOf(2)
    /\ AmountOf(1) > 0
    /\ AmountOf(2) > AmountOf(1)
    /\ Accounts[1].account.data.format # Accounts[2].account.data.format
    /\ ReturnedValue = Alone(Accounts[2])

\* the holdings map of the answer the operation's query got
HoldingsMap == get_token_accounts(rpc_accounts).ret.val

\* C15: get_owned_assets returns exactly the (mint, amount) entries of the
\* holdings map whose amount is positive, each once and with its amount
\* unchanged, and none of amount zero.
C15_OwnedAssetsArePositiveEntries ==
    (CalledOp("get_owned_assets") /\ rpc_accounts.ok) =>
        /\ returned.val.ok
        /\ Range(ReturnedValue) = {<<mint, HoldingsMap[mint]>> :
                                 mint \in {m \in DOMAIN HoldingsMap : HoldingsMap[m] > 0}}
        /\ \A i, j \in DOMAIN ReturnedValue : i # j => ReturnedValue[i][1] # ReturnedValue[j][1]
        /\ \A i \in DOMAIN ReturnedValue : ReturnedValue[i][2] # 0

C15_Witness ==
    /\ CalledOp("get_owned_assets")
    /\ rpc_accounts.ok
    /\ \E mint \in DOMAIN HoldingsMap : HoldingsMap[mint] = 0
    /\ \E mint \in DOMAIN HoldingsMap : HoldingsMap[mint] > 0
    /\ returned.val.ok
    /\ Len(ReturnedValue) = 1
    /\ ReturnedValue[1][2] > 0

AssetInfoAnswer == rpc_metadata[operation.val.arg]

\* C16: get_asset_info gives absence, and no error, when the metadata
\* account does not exist, when fetching it fails, or when its bytes do not
\* parse.
C16_MissingMetadataIsNone ==
    ( /\ CalledOp("get_asset_info")
      /\ \/ AssetInfoAnswer = Err("AccountNotFound")
         \/ AssetInfoAnswer = Err("ClientError")
         \/ AssetInfoAnswer.ok /\ ~Metadata_from_bytes(AssetInfoAnswer.val).ok ) =>
        /\ returned.val.ok
        /\ returned.val.val = None

\* a text without the NULs at its end
RECURSIVE TrimEnd(_)
TrimEnd(str) ==
    IF str # <<>> /\ str[Len(str)] = 0 THEN TrimEnd(SubSeq(str, 1, Len(str) - 1)) ELSE str

StoredMetadata == Metadata_from_bytes(AssetInfoAnswer.val).val

\* C17: for a metadata account that is present and parses, get_asset_info
\* returns the stored name without its trailing NULs, the first creator's
\* address as issuer (the default key when there is none), the queried mint
\* as token_mint, and the placeholders value 0, created_at 0, description
\* "Asset tokenized on Finternet", asset_type "tokenized_asset".
C17_AssetInfoOfStoredMetadata ==
    ( /\ CalledOp("get_asset_info")
      /\ AssetInfoAnswer.ok
      /\ Metadata_from_bytes(AssetInfoAnswer.val).ok ) =>
        /\ returned.val.ok
        /\ ReturnedValue.name = TrimEnd(StoredMetadata.name)
        /\ ReturnedValue.issuer =
               (IF StoredMetadata.creators.some /\ Len(StoredMetadata.creators.val) > 0
                THEN StoredMetadata.creators.val[1].address
                ELSE DefaultKey)
        /\ ReturnedValue.token_mint = Some(operation.val.arg)
        /\ ReturnedValue.value = 0
        /\ ReturnedValue.created_at = 0
        /\ ReturnedValue.description = "Asset tokenized on Finternet"
        /\ ReturnedValue.asset_type = "tokenized_asset"

\* the lookup of this mint's metadata failed
LookupFailed(mint) == ~get_asset_info(mint, rpc_metadata[mint]).ok

\* C18: discover_all_tokens returns one (mint, balance, display name) entry
\* for every holdings entry of positive balance and none for balance zero;
\* where the metadata lookup of a mint failed the entry is there with name
\* None, the call still returns Ok, and the other entries carry the names
\* their own lookups gave.
C18_DiscoveryKeepsTokensWithoutMetadata ==
    (CalledOp("discover_all_tokens") /\ rpc_accounts.ok) =>
        /\ returned.val.ok
        /\ {<<ReturnedValue[i][1], ReturnedValue[i][2]>> : i \in DOMAIN ReturnedValue}
               = {<<mint, HoldingsMap[mint]>> :
                     mint \in {m \in DOMAIN HoldingsMap : HoldingsMap[m] > 0}}
        /\ \A i, j \in DOMAIN ReturnedValue :
               i # j => ReturnedValue[i][1] # ReturnedValue[j][1]
        /\ \A i \in DOMAIN ReturnedValue :
               LET mint == ReturnedValue[i][1]
               IN  IF LookupFailed(mint)
                   THEN ReturnedValue[i][3] = None
                   ELSE ReturnedValue[i][3]
                            = Some(get_asset_info(mint, rpc_metadata[mint]).val.name)

\* two tokens, the lookup of the first failed and that of the second did not
C18_Witness ==
    /\ CalledOp("discover_all_tokens")
    /\ returned.val.ok
    /\ Len(ReturnedValue) = 2
    /\ LookupFailed(ReturnedValue[1][1])
    /\ ReturnedValue[1][3] = None
    /\ ReturnedValue[2][3] = Some(<<97, 98>>)

\* what the claim requires of a structured account: an "info" object with a
\* "mint" string that is a public key and a "tokenAmount" object whose
\* "amount" is a string that is a u64
HasObject(v, key) == "object" \in DOMAIN v /\ key \in DOMAIN v.object /\ "object" \in DOMAIN v.object[key]
HasString(v, key) == "object" \in DOMAIN v /\ key \in DOMAIN v.object /\ "string" \in DOMAIN v.object[key]

WellFormedJson(parsed) ==
    /\ HasObject(parsed, "info")
    /\ HasString(parsed.object.info, "mint")
    /\ ParsePubkey(parsed.object.info.object.mint.string).ok
    /\ HasObject(parsed.object.info, "tokenAmount")
    /\ HasString(parsed.object.info.object.tokenAmount, "amount")
    /\ ParseU64(parsed.object.info.object.tokenAmount.object.amount.string).ok

JsonMint(parsed) == ParsePubkey(parsed.object.info.object.mint.string).val
JsonAmount(parsed) == ParseU64(parsed.object.info.object.tokenAmount.object.amount.string).val

IsJson(k) == Accounts[k].account.data.format = "Json"
ParsedOf(k) == Accounts[k].account.data.parsed.parsed

\* C20: a structured account puts its (mint, amount) into the map exactly
\* when it is well formed: then its mint is a key, with its amount unless a
\* later account of the mint overwrote it; otherwise the map is the one of
\* the answer without the account, so that nothing is entered for it, not
\* even an amount of 0.
C20_JsonAccountContributesIffWellFormed ==
    (CalledOp("get_token_accounts") /\ rpc_accounts.ok) =>
        \A k \in DOMAIN Accounts :
            IsJson(k) =>
                IF WellFormedJson(ParsedOf(k))
                THEN /\ returned.val.ok
                     /\ JsonMint(ParsedOf(k)) \in DOMAIN ReturnedValue
                     /\ (\A j \in DOMAIN Accounts :
                            j > k => JsonMint(ParsedOf(k)) \notin DOMAIN Alone(Accounts[j]))
                          => ReturnedValue[JsonMint(ParsedOf(k))] = JsonAmount(ParsedOf(k))
                ELSE /\ returned.val.ok
                     /\ ReturnedValue = get_token_accounts(Ok(Without(k))).ret.val
                     /\ Len(Accounts) = 1 => ReturnedValue = EmptyMap

\* a well-formed account after one whose amount is no number
C20_Witness ==
    /\ CalledOp("get_token_accounts")
    /\ rpc_accounts.ok
    /\ Len(Accounts) = 2
    /\ IsJson(1)
    /\ HasObject(ParsedOf(1), "info")
    /\ HasString(ParsedOf(1).object.info, "mint")
    /\ ParsePubkey(ParsedOf(1).object.info.object.mint.string).ok
    /\ HasObject(ParsedOf(1).object.info, "tokenAmount")
    /\ HasString(ParsedOf(1).object.info.object.tokenAmount, "amount")
    /\ ~WellFormedJson(ParsedOf(1))
    /\ IsJson(2)
    /\ WellFormedJson(ParsedOf(2))
    /\ JsonMint(ParsedOf(2)) # ParsePubkey(ParsedOf(1).object.info.object.mint.string).val
    /\ ReturnedValue = [mint \in {JsonMint(ParsedOf(2))} |-> JsonAmount(ParsedOf(2))]

\* an entry that reports an account not decoded
FailureEntry(entry) ==
    entry.level = "warn" \/ entry.text = "Account data format not supported"

HoldingsCall ==
    /\ operation.some
    /\ operation.val.name \in {"get_token_accounts", "get_owned_assets", "discover_all_tokens"}
    /\ rpc_accounts.ok

\* C21: every account get_token_accounts does not decode leaves a log entry
\* with the index the account has in the answer (counted from 0), the
\* accounts after it are processed all the same and leave their own entries,
\* and an account that decodes leaves no failure entry.
C21_DecodeFailureLoggedWithIndex ==
    HoldingsCall =>
        /\ Len(logged) = Len(Accounts)
        /\ \A k \in DOMAIN Accounts :
               /\ logged[k].account = k - 1
               /\ FailureEntry(logged[k]) <=> Alone(Accounts[k]) = EmptyMap

C21_Witness ==
    /\ HoldingsCall
    /\ Len(Accounts) = 2
    /\ DecodeFailure(Accounts[2])
    /\ Alone(Accounts[1]) # EmptyMap
    /\ logged[2].level = "warn"
    /\ logged[2].account = 1
    /\ ~FailureEntry(logged[1])

(***************************************************************************)
(* Properties of the first query of an operation (SpecFirstQuery).         *)
(***************************************************************************)
OperationsOnTokenAccounts ==
    {"get_token_accounts", "get_owned_assets", "discover_all_tokens", "get_wallet_info"}

\* the token-accounts query was made and failed
TokenAccountsQueryFailed ==
    /\ operation.some
    /\ operation.val.name \in OperationsOnTokenAccounts
    /\ operation.val.name = "get_wallet_info" => rpc_balance.ok
    /\ ~rpc_accounts.ok

\* C22: when the signature-list query fails get_transaction_history returns
\* that error, and when the token-accounts query fails get_token_accounts,
\* get_owned_assets, discover_all_tokens and get_wallet_info return that
\* error; none of them returns an empty (or any other Ok) result.
C22_FailedFirstQueryIsAnError ==
    /\ (pc # "idle" /\ ~rpc_signatures.ok) =>
           /\ pc = "done"
           /\ fetched = <<>>
           /\ ret = Some(rpc_signatures)
    /\ TokenAccountsQueryFailed =>
           /\ logged = <<>>
           /\ returned = Some(rpc_accounts)

C22_Witness ==
    /\ TokenAccountsQueryFailed
    /\ operation.val.name = "get_wallet_info"
    /\ returned = Some(Err("ClientError"))

(***************************************************************************)
(* Properties of the submitting operations (SpecSubmit).                   *)
(***************************************************************************)
Requested(name) == request.some /\ request.val.name = name

Submitting ==
    Requested("send_payment") \/ Requested("tokenize_asset") \/ Requested("write_ledger_entry")

Confirmation == rpc_answers.send_and_confirm_transaction

\* C23: a call of send_payment, tokenize_asset or write_ledger_entry submits
\* at most one transaction; when the submission fails the call returns that
\* failure, and when it succeeds the call returns the signature the
\* submission confirmed.
C23_OneSubmissionReturningItsSignature ==
    Submitting =>
        /\ Len(sent) <= 1
        /\ Len(sent) = 1 => result = Some(Confirmation)
        /\ Len(sent) = 0 => (result.some /\ ~result.val.ok)

\* what holds of the three: no second submission, the failure of the one
\* submission returned, and its signature returned by send_payment and
\* write_ledger_entry
AtMostOneSubmission ==
    Submitting =>
        /\ Len(sent) <= 1
        /\ (Len(sent) = 1 /\ ~Confirmation.ok) => result = Some(Confirmation)
        /\ (Len(sent) = 1 /\ ~Requested("tokenize_asset")) => result = Some(Confirmation)

(***************************************************************************)
(* Properties of the limit of a scan (Spec).                               *)
(***************************************************************************)
\* C25: a call without a limit resolves it to 10, the limit it requests of
\* the signature query, and for every limit the call requests at most that
\* many transactions, one per signature of the response and in the
\* response's order, and holds and returns at most that many records.
C25_DefaultLimitAndFetchesInOrder ==
    pc # "idle" =>
        /\ limit = (IF limit_arg.some THEN limit_arg.val ELSE 10)
        /\ Len(fetch_requests) <= limit
        /\ Len(fetch_requests) <= Len(signatures)
        /\ \A i \in DOMAIN fetch_requests :
               /\ SignatureAt(i).ok
               /\ fetch_requests[i] = SignatureAt(i).val
        /\ Len(transaction_records) <= limit
        /\ ReturnedOk => Len(ReturnedRecords) <= limit

C25_Witness ==
    /\ limit_arg = None
    /\ Len(signatures) = 11
    /\ ReturnedOk
    /\ Len(fetch_requests) = 10
    /\ Len(ReturnedRecords) = 10

(***************************************************************************)
(* The two reconstructions of one transaction compared (SpecTx).           *)
(***************************************************************************)
BothDone == HistoryDone /\ DetailsDone

C27_AmountAtLeastOne ==
    /\ \A r \in Produced : r.amount >= 1
    /\ (HistoryDone /\ hist.val.ok /\ BothSnapshots
          /\ \A k \in Overlap : Value(Pre[k]) = Value(Post[k])) => HistoryRecords = <<>>
    /\ (DetailsDone /\ det.val.ok /\ BothSnapshots
          /\ \A k \in Overlap : Value(Pre[k]) = Value(Post[k])) => ~DetailsRecord.some

C27_Witness ==
    /\ BothDone
    /\ hist.val.ok
    /\ Len(HistoryRecords) = 1
    /\ det.val.ok
    /\ DetailsRecord.some
    /\ BothSnapshots
    /\ ~Parsed(Pre[1]).ok
    /\ HistoryRecords[1].amount = Value(Post[1])
    /\ DetailsRecord.val.amount >= 1

(***************************************************************************)
(* The transaction send_payment submits (SpecSubmit).                      *)
(***************************************************************************)
\* the keys a transaction needs signatures of: the fee payer and every
\* account an instruction marks as signer
RequiredSigners(signed) ==
    {signed.fee_payer} \cup
    UNION { { signed.instructions[i].accounts[j].pubkey
                : j \in {a \in DOMAIN signed.instructions[i].accounts :
                            signed.instructions[i].accounts[a].is_signer} }
            : i \in DOMAIN signed.instructions }

\* the instructions of a program in a list
InstructionsOf(program_id, instructions) ==
    {i \in DOMAIN instructions : instructions[i].program_id = program_id}

PaymentSubmitted == Requested("send_payment") /\ Len(sent) = 1

\* C28: the transaction send_payment submits holds, in this order, a
\* create-associated-token-account instruction for the recipient exactly when
\* the lookup of the recipient's associated account failed, one transfer of
\* the amount from the sender's associated account to the recipient's, and a
\* memo instruction with the memo's bytes exactly when a memo was given (an
\* empty one too); the sender pays the fee and is the only signer.
C28_PaymentInstructionsInOrder ==
    PaymentSubmitted =>
        LET args == request.val.arg
            ixs == sent[1].instructions
            created == IF rpc_answers.get_account.ok THEN 0 ELSE 1
            noted == IF args.memo.some THEN 1 ELSE 0
            from_ata == get_associated_token_address(OwnerKey, args.token_mint)
            to_ata == get_associated_token_address(args.to_pubkey, args.token_mint)
        IN  /\ Len(ixs) = created + 1 + noted
            /\ InstructionsOf(AssociatedTokenProgramId, ixs) = 1..created
            /\ InstructionsOf(TokenProgramId, ixs) = {created + 1}
            /\ InstructionsOf(MemoProgramId, ixs) = (created + 2)..(created + 1 + noted)
            /\ created = 1 =>
                   /\ ixs[1].accounts[1].pubkey = OwnerKey
                   /\ ixs[1].accounts[2].pubkey = to_ata
                   /\ ixs[1].accounts[3].pubkey = args.to_pubkey
                   /\ ixs[1].accounts[4].pubkey = args.token_mint
            /\ ixs[created + 1].accounts[1].pubkey = from_ata
            /\ ixs[created + 1].accounts[2].pubkey = to_ata
            /\ ixs[created + 1].data = <<3>> \o ToLittleEndian(args.amount, AmountLen)
            /\ noted = 1 => ixs[Len(ixs)].data = args.memo.val
            /\ sent[1].fee_payer = OwnerKey
            /\ sent[1].signers = {OwnerKey}
            /\ RequiredSigners(sent[1]) = {OwnerKey}

C28_Witness ==
    /\ PaymentSubmitted
    /\ ~rpc_answers.get_account.ok
    /\ request.val.arg.memo = Some(<<>>)
    /\ request.val.arg.to_pubkey = RecipientKey
    /\ Len(sent[1].instructions) = 3
    /\ sent[1].instructions[3].program_id = MemoProgramId
    /\ result.val.ok

\* C29: get_token_balance never returns an error: it returns the amount of
\* the balance answer when that parses as a u64 and 0 when the query fails or
\* the amount does not parse; can_afford_payment returns true exactly when
\* that balance is at least the amount asked about.
C29_BalanceIsAmountOrZero ==
    LET answer == rpc_answers.get_token_account_balance
        balance == IF answer.ok /\ ParseU64(answer.val.amount).ok
                   THEN ParseU64(answer.val.amount).val
                   ELSE 0
    IN  /\ Requested("get_token_balance") => result = Some(Ok(balance))
        /\ Requested("can_afford_payment") =>
               result = Some(Ok(balance >= request.val.arg.amount))

C29_Witness ==
    /\ Requested("can_afford_payment")
    /\ rpc_answers.get_token_account_balance.ok
    /\ ~ParseU64(rpc_answers.get_token_account_balance.val.amount).ok
    /\ request.val.arg.amount = 1
    /\ result = Some(Ok(FALSE))

(***************************************************************************)
(* Properties of the globals of the HTTP server (SpecServer).              *)
(***************************************************************************)
Written(global) == {w \in DOMAIN writes : writes[w].global = global}

\* C30: CLIENT and WALLET are each written once, by initialize_client and
\* before any request is taken: no write is made while a handler is in
\* flight, a handler exists only when both are set, and every value a handler
\* read from them is Some, so that none ends in the panic of get_client or
\* get_wallet.
C30_GlobalsSetBeforeAnyHandler ==
    /\ Cardinality(Written("CLIENT")) <= 1
    /\ Cardinality(Written("WALLET")) <= 1
    /\ \A w \in DOMAIN writes : writes[w].handlers_in_flight = 0
    /\ (main_pc = "serve" \/ handlers # <<>>) =>
           /\ writes = <<[global |-> "CLIENT", handlers_in_flight |-> 0],
                         [global |-> "WALLET", handlers_in_flight |-> 0]>>
           /\ CLIENT.some
           /\ WALLET.some
    /\ \A h \in DOMAIN handlers :
           /\ handlers[h].at # "panicked"
           /\ handlers[h].at \in {"get_wallet", "respond", "done"}
                  => (handlers[h].route \in ClientRoutes => handlers[h].client.some)
           /\ (handlers[h].at \in {"respond", "done"} /\ handlers[h].route \in WalletRoutes)
                  => handlers[h].wallet.some

C30_Witness ==
    /\ Len(handlers) = 2
    /\ handlers[1].route = "send_payment"
    /\ handlers[1].at = "get_wallet"
    /\ handlers[1].client.some
    /\ handlers[2].route = "get_asset_info"
    /\ handlers[2].at = "done"
    /\ handlers[2].client.some

(***************************************************************************)
(* Properties of calls in flight together (SpecCalls).                     *)
(***************************************************************************)
\* the loop of lines 43-99 run on its own from the i-th signature on, each
\* fetch answered by responses[i]
RECURSIVE ScanAlone(_, _, _, _, _, _)
ScanAlone(own, sigs, n, responses, i, records) ==
    IF i > n \/ i > Len(responses) THEN Ok(records)
    ELSE LET out == history_iteration(own, sigs[i], responses[i], records)
         IN  IF ~out.ok THEN out
             ELSE ScanAlone(own, sigs, n, responses, i + 1, out.val)

\* what call c returns when it runs alone and is given these answers
ResultAlone(c, responses) ==
    IF calls[c].operation = "get_token_accounts"
    THEN get_token_accounts(calls[c].rpc_accounts).ret
    ELSE IF ~calls[c].rpc_signatures.ok THEN calls[c].rpc_signatures
    ELSE ScanAlone(OwnerOf(c), calls[c].rpc_signatures.val,
                   take_len(calls[c].rpc_signatures.val, calls[c].limit),
                   responses, 1, <<>>)

CallDone(c) == calls[c].at = "done"

\* C24: whatever the order in which the requests of the calls in flight are
\* answered, a call returns what it returns alone on the answers it was
\* given, and a failed fetch changes nothing but its own signature's part:
\* the call returns what it returns when that fetch brings a transaction
\* without token balances.
C24_CallsDoNotInterfere ==
    \A c \in DOMAIN calls :
        CallDone(c) =>
            /\ calls[c].ret = Some(ResultAlone(c, calls[c].responses))
            /\ \A i \in DOMAIN calls[c].responses :
                   ~calls[c].responses[i].ok =>
                       calls[c].ret =
                           Some(ResultAlone(c, [calls[c].responses EXCEPT
                                                   ![i] = Ok(NoMetaTransaction)]))

C24_Witness ==
    /\ DOMAIN calls = Callers
    /\ CallDone(1)
    /\ CallDone(2)
    /\ calls[1].operation = "get_transaction_history"
    /\ calls[2].operation = "get_transaction_history"
    /\ calls[1].responses = <<ClientErr, Ok(ChangedTransaction)>>
    /\ calls[2].responses = <<Ok(ChangedTransaction), ClientErr>>
    /\ calls[1].ret.val.ok
    /\ Len(calls[1].ret.val.val) = 1
    /\ calls[1].ret.val.val[1].from = OwnerKey
    /\ calls[2].ret.val.ok
    /\ Len(calls[2].ret.val.val) = 1
    /\ calls[2].ret.val.val[1].from = RecipientKey

====
